---- MODULE Spec2Model ----
(***************************************************************************)
(* Verification model of groqscraper: the in-memory result cache           *)
(* (src/lib/cache/memoryCache.ts over lru-cache's LRUCache), the dynamic   *)
(* fetcher (src/lib/scraping/puppeteer.ts) and the POST /api/scrape route  *)
(* handler (src/app/api/scrape/route.ts, stored as src/src/app/page.tsx).  *)
(* Further sections model the static fetcher and its helpers              *)
(* (src/lib/scraping/cheerio.ts), the rate limiter, the retry wrappers,    *)
(* the accounts and sessions (src/lib/auth/auth.ts), the scraping history *)
(* with its GET and DELETE handlers, the audit log                         *)
(* (src/lib/security/audit.ts), the rate limiter as shared by the routes,  *)
(* and the cache key of POST /api/scrape.                                  *)
(*                                                                         *)
(* Optional JavaScript values are sequences: <<>> is undefined, <<v>> is   *)
(* the value v.                                                            *)
(***************************************************************************)
EXTENDS Integers, Sequences, FiniteSets, TLC

\* ------------------------------------------------------------------------
\* Bounds
\* ------------------------------------------------------------------------

\* Capacity given to the LRUCache constructor.  The program passes max: 100
\* (memoryCache.ts:6); the eviction logic is parametric in it and the model
\* is explored with a small capacity.
CacheMax == 2

\* The clock is observed at the start instant, at one default TTL after it,
\* and up to this many milliseconds later still.
MaxOverrun == 1

\* Concurrent callers of a fetcher (dynamic or static).
NumCalls == 2

\* Calls of a fetcher (dynamic or static) that are started in one run.
MaxInvocations == 3

\* Scroll positions are stored exactly up to this many pixels; beyond it
\* totalHeight and scrollHeight are both shifted down by two scroll steps
\* (autoScroll only compares the two, so the comparison is unchanged, and
\* two consecutive ticks still differ).
MaxScroll == 200

\* Request handlers of POST /api/scrape that run at the same time.
NumReqs == 2

\* Requests that arrive at POST /api/scrape in one run.
MaxArrivals == 2

\* JSON-LD script blocks in a document.
MaxBlocks == 3

\* Characters in the text of a page body.
MaxLen == 5

\* The limit passed to rateLimit.  The routes pass 5, 10 and 20
\* (process/route.ts:9, scrape/route.ts:54, history/route.ts:9); the
\* counting does not depend on the number and a small one is explored.
Limit == 2

\* rateLimit calls in one run of the rate limiter on its own.
MaxRateCalls == 5

\* Rate-limit windows that can follow the first one.
MaxWindows == 2

\* Largest number of retries a caller passes as options.maxRetries.
MaxRetriesArg == 2

\* Session tokens issued by loginUser in one run.
MaxTokens == 1

\* User records created by registerUser in one run.
MaxUsers == 2

\* Scraping tasks saved in one run.
MaxTasks == 2

\* Deletions requested in one run, through the DELETE handler or directly.
MaxDeletes == 1

\* GET /api/history requests handled in one run.
MaxGets == 1

\* Entries of the audit log in one run.
MaxLogs == 3

\* Requests to the rate-limited routes in one run.
MaxRouteCalls == 6

\* ------------------------------------------------------------------------
\* Program constants
\* ------------------------------------------------------------------------

\* ttl option of the LRUCache constructor (memoryCache.ts:7): one hour.
DefaultTTL == 1000 * 60 * 60

\* Keys used by the callers of the cache in the cache-only specification.
CacheKeys == {"a", "b", "c"}

\* Values stored by the cache-only specification.
CacheVals == {"v1", "v2"}

\* Optional value argument of setCacheItem: <<>> is undefined.
SetArgs == {<<>>} \cup {<<v>> : v \in CacheVals}

\* Optional ttl argument of setCacheItem: <<>> is "not passed".
TTLArgs == {<<>>, <<0>>, <<1>>}

\* Amounts by which the clock advances between two operations.
ClockSteps == {1, DefaultTTL}

\* Instants at which the clock is observed (process time is positive).
ClockValues == {1} \cup {1 + DefaultTTL + b : b \in 0 .. MaxOverrun}

Undefined == <<>>

\* autoScroll: const distance = 100 (puppeteer.ts:261)
distance == 100

Calls == 1 .. NumCalls

\* POST /api/scrape: rateLimit(request, 10, 60 * 1000) (page.tsx:54)
ScrapeLimit == 10
ScrapeWindow == 60 * 1000

\* POST /api/scrape: setCacheItem(cacheKey, result, 60 * 60 * 1000) (page.tsx:111)
ScrapeTTL == 60 * 60 * 1000

Reqs == 1 .. NumReqs

\* Strings whose characters matter are sequences of tokens.
\* Two URLs a client may submit, and the selector it may wait for.
UrlExample == <<"http:", "//", "example", ".", "com">>
UrlPrivate == <<"http:", "//", "private-site", ".", "com">>
ScrapeUrls == {UrlExample, UrlPrivate}
Selector == <<"#main">>

\* Bodies of the requests: invalid JSON, or { url?, waitFor? }.
Bodies ==
  {[valid |-> FALSE, url |-> <<>>, waitFor |-> <<>>]} \cup
  [valid : {TRUE}, url : {<<>>} \cup {<<u>> : u \in ScrapeUrls}, waitFor : {<<>>, <<Selector>>}]

\* Addresses of the clients (request.ip).
Ips == {"10.0.0.1"}

\* Versions of the page a fetch may see (a live site changes).
Pages == {"p1", "p2"}

\* Instants at which the scrape route is observed: the start, just after the
\* rate-limit window of the start has passed, and just after a result cached
\* at the start has expired.
ScrapeClock == {1, 1 + ScrapeWindow + 1, 1 + ScrapeTTL + 1}

\* ALLOWED_DOMAINS and BLOCKED_DOMAINS of the environment (.env.example).
AllowedDomains == {<<"example", ".", "com">>, <<"github", ".", "com">>, <<"wikipedia", ".", "org">>}
BlockedDomains == {<<"private-site", ".", "com">>, <<"internal-data", ".", "org">>}

\* The three entry points of puppeteer.ts.
Functions == {"scrapeWithPuppeteer", "extractContentWithPuppeteer", "bypassAntiScrapingMeasures"}

\* document.body.scrollHeight when autoScroll starts.
PageHeights == {50, 250}

\* Pixels a page adds to its height between two scroll ticks (lazy loading).
PageGrowth == {0, 100}

VARIABLES
  cache,        \* LRUCache contents: sequence of entries, least recently used first
  now,          \* performance.now() / Date.now(), in milliseconds
  lastGet,      \* if the last step was a getCacheItem: its key and return value
  lastSet,      \* history: per key, the value of the latest set still standing
  recency,      \* history: keys held by the cache, in order of their last get/set
  dropped,      \* if the last step was a value-storing set: the keys it pushed out
  overwritten,  \* if the last step was a set that replaced a different value: its key
  lruBefore,    \* if the last step set a new key on a full cache: <<the key that
                \* was least recently used before the call>>
  calls,        \* per caller: the running invocation of a puppeteer.ts function
  browsers,     \* per caller: the browser process its running invocation launched
  invocations,  \* number of invocations started so far
  reqs,         \* per handler slot: the request being handled by POST /api/scrape
  ipRequestCounts, \* rateLimit.ts: ip -> { count, resetTime }
  arrivals,     \* number of requests that have arrived so far
  cheerioCalls, \* per caller: the running invocation of scrapeWithCheerio
  cheerioStarted, \* number of scrapeWithCheerio invocations started so far
  ldBlocks,     \* extractStructuredData: the JSON-LD script blocks of its argument
  structuredData, \* extractStructuredData: <<the array it returned>>
  rawText,      \* the text of the body element of a fetched page
  bodyText,     \* <<the bodyText computed from it>>
  rateWindow,   \* history: per address, the rate-limit window it is in
  lastRate,     \* if the last step was a rateLimit call: its address and outcome
  rateCalls,    \* number of rateLimit calls made so far
  retry,        \* the invocation of processWithRetry or processWithMCPRetry
  issued,       \* history: per session token issued by loginUser, the user it was issued for
  loggedOut,    \* history: the session tokens of the requests logoutUser has handled
  registered,   \* number of user records created so far
  lastAuth,     \* if the last step was a call of an auth.ts function: the call and its outcome
  tasksSaved,   \* number of scraping tasks saved so far
  deletes,      \* number of deletions requested so far
  gets,         \* number of GET /api/history requests handled so far
  lastHistory,  \* if the last step was a history operation: the operation and its outcome
  auditLogs,    \* audit.ts: the array of audit log entries
  lastAudit     \* if the last step was a getAuditLogs call: its arguments and result

fetchVars == <<calls, browsers, invocations>>
scrapeVars == <<reqs, ipRequestCounts, arrivals>>
staticVars == <<cheerioCalls, cheerioStarted>>
\* State of the components other than the cache, the dynamic fetcher and
\* the scrape route.
ldVars == <<ldBlocks, structuredData>>
textVars == <<rawText, bodyText>>
rateVars == <<rateWindow, lastRate, rateCalls>>
retryVars == <<retry>>
authVars == <<issued, loggedOut, registered, lastAuth>>
historyVars == <<tasksSaved, deletes, gets, lastHistory>>
auditVars == <<auditLogs, lastAudit>>
otherVars == <<staticVars, ldVars, textVars, rateVars, retryVars, authVars, historyVars,
               auditVars>>
vars == <<cache, now, lastGet, lastSet, recency, dropped, overwritten, lruBefore,
          calls, browsers, invocations, reqs, ipRequestCounts, arrivals, otherVars>>

\* ------------------------------------------------------------------------
\* LRUCache (lru-cache), as used through memoryCache.ts
\* An entry is [key, val, start, ttl]; ttl = 0 means "no expiry" and then
\* start is 0 (LRUCache#setItemTTL).
\* ------------------------------------------------------------------------

RECURSIVE IndexOf(_, _, _)
IndexOf(c, k, i) ==
  IF i > Len(c) THEN 0
  ELSE IF c[i].key = k THEN i
  ELSE IndexOf(c, k, i + 1)

\* keyMap.get(k): position of k's entry, 0 when k is not held.
KeyIndex(c, k) == IndexOf(c, k, 1)

CacheKeySet(c) == {c[i].key : i \in 1 .. Len(c)}

RemoveAt(c, i) == SubSeq(c, 1, i - 1) \o SubSeq(c, i + 1, Len(c))

\* LRUCache#isStale: !!ttl && !!start && now - start > ttl
IsStale(e, t) == e.ttl # 0 /\ e.start # 0 /\ t - e.start > e.ttl

\* LRUCache.delete(k)
LRUDelete(c, k) ==
  LET i == KeyIndex(c, k) IN IF i = 0 THEN c ELSE RemoveAt(c, i)

\* LRUCache.get(k): a stale entry is deleted and undefined is returned; a
\* fresh one is moved to the most-recently-used end and its value returned.
LRUGetKeepsOrder(c, k, t) ==
  LET i == KeyIndex(c, k) IN
    IF i = 0 THEN [cache |-> c, value |-> Undefined]
    ELSE IF IsStale(c[i], t) THEN [cache |-> RemoveAt(c, i), value |-> Undefined]
    ELSE [cache |-> c, value |-> <<c[i].val>>]

LRUGet(c, k, t) ==
  LET i == KeyIndex(c, k) IN
    IF i = 0 THEN [cache |-> c, value |-> Undefined]
    ELSE IF IsStale(c[i], t) THEN [cache |-> RemoveAt(c, i), value |-> Undefined]
    ELSE [cache |-> Append(RemoveAt(c, i), c[i]), value |-> <<c[i].val>>]

\* The ttl a set call stores: "const { ttl = this.ttl } = setOptions".
EffectiveTTL(ttlArg) == IF ttlArg = <<>> THEN DefaultTTL ELSE ttlArg[1]

\* LRUCache#setItemTTL: starts[index] = ttl !== 0 ? start : 0
NewEntry(k, v, ttlArg, t) ==
  LET ttl == EffectiveTTL(ttlArg) IN
    [key |-> k, val |-> v, start |-> IF ttl # 0 THEN t ELSE 0, ttl |-> ttl]

\* LRUCache.set(k, v, { ttl }) of a cache constructed with the capacity max:
\* undefined deletes; an existing key is moved to the most-recently-used end
\* with the new value and TTL; a new key is appended, evicting the least
\* recently used entry when the cache is full.
LRUSetMax(c, k, vArg, ttlArg, t, max) ==
  IF vArg = <<>> THEN LRUDelete(c, k)
  ELSE LET i == KeyIndex(c, k)
           e == NewEntry(k, vArg[1], ttlArg, t) IN
    IF i # 0 THEN Append(RemoveAt(c, i), e)
    ELSE IF Len(c) >= max THEN Append(Tail(c), e)
    ELSE Append(c, e)

LRUSetKeepsOld(c, k, vArg, ttlArg, t) ==
  IF vArg = <<>> THEN LRUDelete(c, k)
  ELSE LET i == KeyIndex(c, k) IN
    IF i # 0 THEN Append(RemoveAt(c, i), c[i])
    ELSE IF Len(c) >= CacheMax THEN Append(Tail(c), NewEntry(k, vArg[1], ttlArg, t))
    ELSE Append(c, NewEntry(k, vArg[1], ttlArg, t))

LRUSet(c, k, vArg, ttlArg, t) == LRUSetMax(c, k, vArg, ttlArg, t, CacheMax)

\* ------------------------------------------------------------------------
\* History variables of the cache claims
\* ------------------------------------------------------------------------

\* Order of last use: k becomes the most recently used key.
Touch(r, k) == SelectSeq(r, LAMBDA x : x # k) \o <<k>>

\* Keep only the keys the cache still holds.
Restrict(r, c) == LET held == CacheKeySet(c) IN SelectSeq(r, LAMBDA x : x \in held)

\* Forget the standing value of every key the cache no longer holds.
Standing(ls, c) ==
  LET held == CacheKeySet(c) IN [k \in DOMAIN ls |-> IF k \in held THEN ls[k] ELSE Undefined]

\* ------------------------------------------------------------------------
\* Cache-only specification: callers of memoryCache.ts and the clock
\* ------------------------------------------------------------------------

NoGet == [key |-> "", value |-> Undefined]

\* No process: the slot of a caller whose invocation has not launched one.
NoBrowser == [launched |-> FALSE, users |-> {}, closers |-> {}, closes |-> 0, open |-> FALSE]

IdleCall ==
  [pc |-> "idle", fn |-> "", waitFor |-> FALSE, browser |-> <<>>,
   pending |-> "none", timedOut |-> FALSE, extracted |-> FALSE, shot |-> FALSE,
   totalHeight |-> 0, scrollHeight |-> 0]

NoFetch ==
  /\ calls = [c \in Calls |-> IdleCall]
  /\ browsers = [c \in Calls |-> NoBrowser]
  /\ invocations = 0

NoResponse == [status |-> 0, cached |-> FALSE, data |-> <<>>]

IdleReq ==
  [pc |-> "idle", ip |-> "", body |-> [valid |-> FALSE, url |-> <<>>, waitFor |-> <<>>],
   allowed |-> <<>>, looked |-> <<>>, fetched |-> FALSE, wrote |-> FALSE,
   readBack |-> <<>>, resp |-> NoResponse]

NoScrape ==
  /\ reqs = [r \in Reqs |-> IdleReq]
  /\ ipRequestCounts = <<>>
  /\ arrivals = 0

IdleCheerio ==
  [pc |-> "idle", url |-> <<>>, requests |-> 0, status |-> <<>>, outcome |-> "none",
   result |-> <<>>]

NoStatic ==
  /\ cheerioCalls = [c \in Calls |-> IdleCheerio]
  /\ cheerioStarted = 0

\* Nothing has happened in the other components.
NoJsonLd ==
  /\ ldBlocks = <<>>
  /\ structuredData = <<>>

\* The cache is empty and the clock is at the start instant.
IdleCache ==
  /\ cache = <<>>
  /\ now = 1
  /\ lastGet = NoGet
  /\ lastSet = [k \in CacheKeys |-> Undefined]
  /\ recency = <<>>
  /\ dropped = {}
  /\ overwritten = {}
  /\ lruBefore = <<>>

NoText ==
  /\ rawText = <<>>
  /\ bodyText = <<>>

\* The rate limiter is not observed on its own.
NoRateLog ==
  /\ rateWindow = <<>>
  /\ lastRate = <<>>
  /\ rateCalls = 0

NoRetry == retry = <<>>

\* The last step was not a call of an auth.ts function.
NoAuthCall == [op |-> "none"]

\* No account has been created and nobody has logged in or out.
NoAuth ==
  /\ issued = <<>>
  /\ loggedOut = {}
  /\ registered = 0
  /\ lastAuth = NoAuthCall

\* The last step was not a history operation.
NoHistoryCall == [op |-> "none"]

NoHistory ==
  /\ tasksSaved = 0
  /\ deletes = 0
  /\ gets = 0
  /\ lastHistory = NoHistoryCall

\* The last step was not a getAuditLogs call.
NoAuditCall == [op |-> "none"]

NoAudit ==
  /\ auditLogs = <<>>
  /\ lastAudit = NoAuditCall

NoOther ==
  /\ NoStatic
  /\ NoJsonLd
  /\ NoText
  /\ NoRateLog
  /\ NoRetry
  /\ NoAuth
  /\ NoHistory
  /\ NoAudit

InitCache ==
  /\ NoFetch
  /\ NoScrape
  /\ NoOther
  /\ cache = <<>>
  /\ now = 1
  /\ lastGet = NoGet
  /\ lastSet = [k \in CacheKeys |-> Undefined]
  /\ recency = <<>>
  /\ dropped = {}
  /\ overwritten = {}
  /\ lruBefore = <<>>

\* getCacheItem(key)
getCacheItem(k) ==
  LET r == LRUGet(cache, k, now) IN
    /\ cache' = r.cache
    /\ lastGet' = [key |-> k, value |-> r.value]
    /\ recency' = Restrict(Touch(recency, k), r.cache)
    /\ lastSet' = Standing(lastSet, r.cache)
    /\ dropped' = {}
    /\ overwritten' = {}
    /\ lruBefore' = <<>>
    /\ UNCHANGED <<now, fetchVars, scrapeVars, otherVars>>

\* setCacheItem(key, value, ttl)
setCacheItem(k, vArg, ttlArg) ==
  LET c2 == LRUSet(cache, k, vArg, ttlArg, now) IN
    /\ cache' = c2
    /\ recency' = Restrict(Touch(recency, k), c2)
    /\ lastSet' = Standing([lastSet EXCEPT ![k] = vArg], c2)
    /\ dropped' = IF vArg = <<>> THEN {} ELSE CacheKeySet(cache) \ CacheKeySet(c2)
    /\ overwritten' =
         IF lastSet[k] # Undefined /\ vArg # Undefined /\ vArg # lastSet[k]
           THEN {k} ELSE {}
    /\ lruBefore' =
         IF vArg # <<>> /\ k \notin CacheKeySet(cache) /\ Len(cache) = CacheMax
           THEN <<Head(recency)>> ELSE <<>>
    /\ lastGet' = NoGet
    /\ UNCHANGED <<now, fetchVars, scrapeVars, otherVars>>

\* removeCacheItem(key)
removeCacheItem(k) ==
  LET c2 == LRUDelete(cache, k) IN
    /\ cache' = c2
    /\ recency' = Restrict(recency, c2)
    /\ lastSet' = Standing(lastSet, c2)
    /\ dropped' = {}
    /\ overwritten' = {}
    /\ lruBefore' = <<>>
    /\ lastGet' = NoGet
    /\ UNCHANGED <<now, fetchVars, scrapeVars, otherVars>>

\* clearCache()
clearCache ==
  /\ cache' = <<>>
  /\ recency' = <<>>
  /\ lastSet' = [k \in CacheKeys |-> Undefined]
  /\ dropped' = {}
  /\ overwritten' = {}
  /\ lruBefore' = <<>>
  /\ lastGet' = NoGet
  /\ UNCHANGED <<now, fetchVars, scrapeVars, otherVars>>

\* Time passes between two cache operations.
Tick(d) ==
  /\ now + d \in ClockValues
  /\ now' = now + d
  /\ dropped' = {}
  /\ overwritten' = {}
  /\ lruBefore' = <<>>
  /\ lastGet' = NoGet
  /\ UNCHANGED <<cache, lastSet, recency, fetchVars, scrapeVars, otherVars>>

NextCache ==
  \/ \E k \in CacheKeys : getCacheItem(k)
  \/ \E k \in CacheKeys, vArg \in SetArgs, ttlArg \in TTLArgs : setCacheItem(k, vArg, ttlArg)
  \/ \E k \in CacheKeys : removeCacheItem(k)
  \/ clearCache
  \/ \E d \in ClockSteps : Tick(d)

SpecCache == InitCache /\ [][NextCache]_vars

\* ------------------------------------------------------------------------
\* Claims about the cache
\* ------------------------------------------------------------------------

\* C7: for every key k and value v, setCacheItem(k, v, 0) followed
\* immediately by getCacheItem(k) returns undefined.
C7_ZeroTTLIsAbsent ==
  [][\A k \in CacheKeys, vArg \in SetArgs :
       setCacheItem(k, vArg, <<0>>) => LRUGet(cache', k, now').value = Undefined]_vars

\* C8: the cache never holds more than its capacity; a set of a new key on
\* a full cache evicts exactly one key, the least recently used one (recency
\* counted from gets and sets), a get of the evicted key then returns
\* undefined, and every other key is still held.
C8_CapacityAndLRUEviction ==
  /\ Len(cache) <= CacheMax
  /\ lruBefore # <<>> =>
       /\ dropped = {lruBefore[1]}
       /\ Len(cache) = CacheMax
       /\ lruBefore[1] \notin CacheKeySet(cache)
       /\ LRUGet(cache, lruBefore[1], now).value = Undefined

\* C8 witness: a full cache has just evicted a key to take a new one.
C8_Witness == lruBefore # <<>> /\ dropped # {} /\ Len(cache) = CacheMax

\* The visibility C9 states: an entry is returned only while less than its
\* TTL has elapsed since it was set (a zero TTL has always elapsed).
ClaimedVisible(e, t) == e.ttl # 0 /\ t - e.start < e.ttl

\* The entries of the keys other than k are the same in c and c2.
OthersKept(c, c2, k) ==
  \A i \in 1 .. Len(c) : c[i].key # k =>
    /\ KeyIndex(c2, c[i].key) # 0
    /\ c2[KeyIndex(c2, c[i].key)] = c[i]

\* C9: each entry expires independently; getCacheItem returns an entry
\* exactly while less than the entry's own TTL has elapsed since it was
\* set, and a get leaves the entries of the other keys as they were.
C9_IndependentExpiry ==
  [][\A k \in CacheKeys :
       (KeyIndex(cache, k) # 0 /\ getCacheItem(k))
       => ( /\ (lastGet'.value # Undefined) <=> ClaimedVisible(cache[KeyIndex(cache, k)], now)
            /\ OthersKept(cache, cache', k) )]_vars

\* C10: the cache holds at most one entry per key, every held value is the
\* value of the latest standing set of its key, and getCacheItem returns
\* undefined or that value.
C10_LastWriterWins ==
  /\ \A i, j \in 1 .. Len(cache) : cache[i].key = cache[j].key => i = j
  /\ \A i \in 1 .. Len(cache) : lastSet[cache[i].key] = <<cache[i].val>>
  /\ lastGet # NoGet => lastGet.value \in {Undefined, lastSet[lastGet.key]}

\* C10 witness: a set has just replaced a different value of a key, and a
\* get of that key returns the new value.
C10_Witness ==
  \E k \in overwritten :
    /\ lastSet[k] # Undefined
    /\ LRUGet(cache, k, now).value = lastSet[k]

\* ------------------------------------------------------------------------
\* Dynamic fetcher: scrapeWithPuppeteer, extractContentWithPuppeteer and
\* bypassAntiScrapingMeasures (puppeteer.ts).  Every await is a step at
\* which the other invocations may run.  A call record holds the locals of
\* one invocation; pending is what the try block has produced ("return" or
\* "throw") while the finally block runs.
\* ------------------------------------------------------------------------

cacheIdle == <<cache, now, lastGet, lastSet, recency, dropped, overwritten, lruBefore, scrapeVars,
              otherVars>>

InitFetch ==
  /\ NoFetch
  /\ NoScrape
  /\ NoOther
  /\ cache = <<>>
  /\ now = 1
  /\ lastGet = NoGet
  /\ lastSet = [k \in CacheKeys |-> Undefined]
  /\ recency = <<>>
  /\ dropped = {}
  /\ overwritten = {}
  /\ lruBefore = <<>>

\* The invocation of caller c calls a method of browser instance id.
UsedBy(bs, id, c) == [bs EXCEPT ![id].users = @ \cup {c}]

\* finally { if (browser) { await browser.close(); } }: entered with the
\* outcome of the try/catch blocks; close() is called at once when a browser
\* was launched, otherwise the outcome reaches the caller.
\* The arguments are not read again and are dropped from the record.
Settling(cl, pc, pend) ==
  [cl EXCEPT !.pc = pc, !.pending = pend, !.fn = "", !.waitFor = FALSE]

FinallySkipsCloseOnThrow(c, cl, bs, pend) ==
  IF cl.browser # <<>> /\ pend = "return"
    THEN [call |-> Settling(cl, "closing", pend),
          browsers |-> [bs EXCEPT ![cl.browser[1]].closes = @ + 1,
                                  ![cl.browser[1]].closers = @ \cup {c}]]
    ELSE [call |-> Settling(cl, "done", pend), browsers |-> bs]

Finally(c, cl, bs, pend) ==
  IF cl.browser # <<>>
    THEN [call |-> Settling(cl, "closing", pend),
          browsers |-> [bs EXCEPT ![cl.browser[1]].closes = @ + 1,
                                  ![cl.browser[1]].closers = @ \cup {c}]]
    ELSE [call |-> Settling(cl, "done", pend), browsers |-> bs]

\* catch (error) { console.error(...); throw error; } and then finally.
Throw(c, cl) ==
  LET f == Finally(c, cl, browsers, "throw") IN
    /\ calls' = [calls EXCEPT ![c] = f.call]
    /\ browsers' = f.browsers

\* return ...; and then finally.
Return(c, cl) ==
  LET f == Finally(c, cl, browsers, "return") IN
    /\ calls' = [calls EXCEPT ![c] = f.call]
    /\ browsers' = f.browsers

\* The step after navigation (and, for the anti-detection variant, after the
\* scroll): if (waitFor) await page.waitForSelector(...), else extraction.
AfterNavigation(cl) == IF cl.waitFor THEN "waitsel" ELSE "extract"

\* A caller invokes one of the three functions; the body runs up to
\* "await puppeteer.launch(...)".  The caller's previous invocation has
\* ended, and the process it had launched is no longer tracked.
Start(c, f, w) ==
  /\ calls[c].pc \in {"idle", "done"}
  /\ invocations < MaxInvocations
  /\ invocations' = invocations + 1
  /\ calls' = [calls EXCEPT ![c] =
       [IdleCall EXCEPT !.pc = "launch", !.fn = f, !.waitFor = w]]
  /\ browsers' = [browsers EXCEPT ![c] = NoBrowser]
  /\ UNCHANGED cacheIdle

\* browser = await puppeteer.launch(...): a new browser process, or the
\* launch fails and browser stays undefined.
LaunchSharesInstance(c) ==
  /\ calls[c].pc = "launch"
  /\ \/ \E id \in Calls :
          /\ browsers[id].open
          /\ calls' = [calls EXCEPT ![c].browser = <<id>>, ![c].pc = "setup"]
          /\ browsers' = browsers
     \/ /\ \A id \in Calls : ~browsers[id].open
        /\ browsers' = [browsers EXCEPT ![c] = [NoBrowser EXCEPT !.launched = TRUE, !.open = TRUE]]
        /\ calls' = [calls EXCEPT ![c].browser = <<c>>, ![c].pc = "setup"]
     \/ Throw(c, calls[c])
  /\ UNCHANGED <<invocations, cacheIdle>>

Launch(c) ==
  /\ calls[c].pc = "launch"
  /\ \/ /\ browsers' = [browsers EXCEPT ![c] = [NoBrowser EXCEPT !.launched = TRUE, !.open = TRUE]]
        /\ calls' = [calls EXCEPT ![c].browser = <<c>>, ![c].pc = "setup"]
     \/ Throw(c, calls[c])
  /\ UNCHANGED <<invocations, cacheIdle>>

\* browser.newPage(), page.setUserAgent, setExtraHTTPHeaders, setViewport,
\* setJavaScriptEnabled, setRequestInterception: then page.goto is called.
Setup(c) ==
  /\ calls[c].pc = "setup"
  /\ \/ /\ calls' = [calls EXCEPT ![c].pc = "goto"]
        /\ browsers' = UsedBy(browsers, calls[c].browser[1], c)
     \/ Throw(c, calls[c])
  /\ UNCHANGED <<invocations, cacheIdle>>

\* await page.goto(url, { waitUntil: 'networkidle2', timeout }): the page
\* is loaded, the navigation times out, or it fails otherwise.
Goto(c) ==
  /\ calls[c].pc = "goto"
  /\ \/ /\ calls' = [calls EXCEPT ![c].pc =
               IF calls[c].fn = "bypassAntiScrapingMeasures" THEN "pause"
               ELSE AfterNavigation(calls[c])]
        /\ browsers' = UsedBy(browsers, calls[c].browser[1], c)
     \/ Throw(c, [calls[c] EXCEPT !.timedOut = TRUE])
     \/ Throw(c, calls[c])
  /\ UNCHANGED <<invocations, cacheIdle>>

\* await page.waitForTimeout(Math.random() * 1000 + 1000); then autoScroll
\* starts with totalHeight = 0 on a page of some height.
Pause(c) ==
  /\ calls[c].pc = "pause"
  /\ \E h \in PageHeights :
       calls' = [calls EXCEPT ![c].pc = "scroll", ![c].totalHeight = 0, ![c].scrollHeight = h]
  /\ UNCHANGED <<browsers, invocations, cacheIdle>>

\* Positions beyond MaxScroll are stored shifted down by two scroll steps.
Shifted(t, h) == IF t > MaxScroll THEN <<t - 2 * distance, h - 2 * distance>> ELSE <<t, h>>

\* One firing of autoScroll's setInterval callback: read scrollHeight,
\* scrollBy(0, distance), totalHeight += distance, and resolve when
\* totalHeight >= scrollHeight; otherwise the page may grow before the next
\* firing.  The evaluate call can also reject (the page went away).  The
\* two locals are dropped when the promise settles.
ScrollTick(c) ==
  /\ calls[c].pc = "scroll"
  /\ LET t == calls[c].totalHeight + distance
         h == calls[c].scrollHeight IN
       \/ /\ t >= h
          /\ calls' = [calls EXCEPT ![c].pc = AfterNavigation(calls[c]),
                                     ![c].totalHeight = 0, ![c].scrollHeight = 0]
          /\ browsers' = browsers
       \/ /\ t < h
          /\ \E g \in PageGrowth :
               calls' = [calls EXCEPT ![c].totalHeight = Shifted(t, h + g)[1],
                                      ![c].scrollHeight = Shifted(t, h + g)[2]]
          /\ browsers' = browsers
       \/ Throw(c, [calls[c] EXCEPT !.totalHeight = 0, !.scrollHeight = 0])
  /\ UNCHANGED <<invocations, cacheIdle>>

\* await page.waitForSelector(waitFor, { timeout }): the selector appears,
\* the wait times out, or it fails otherwise.
WaitSelSwallowsTimeout(c) ==
  /\ calls[c].pc = "waitsel"
  /\ \/ /\ calls' = [calls EXCEPT ![c].pc = "extract"]
        /\ browsers' = browsers
     \/ /\ calls' = [calls EXCEPT ![c].pc = "extract", ![c].timedOut = TRUE]
        /\ browsers' = browsers
     \/ Throw(c, calls[c])
  /\ UNCHANGED <<invocations, cacheIdle>>

WaitSel(c) ==
  /\ calls[c].pc = "waitsel"
  /\ \/ /\ calls' = [calls EXCEPT ![c].pc = "extract"]
        /\ browsers' = browsers
     \/ Throw(c, [calls[c] EXCEPT !.timedOut = TRUE])
     \/ Throw(c, calls[c])
  /\ UNCHANGED <<invocations, cacheIdle>>

\* page.title(), the page.evaluate calls and page.content(): the content is
\* extracted; extractContentWithPuppeteer then returns, the other two take
\* a screenshot.
Extract(c) ==
  /\ calls[c].pc = "extract"
  /\ \/ IF calls[c].fn = "extractContentWithPuppeteer"
          THEN Return(c, [calls[c] EXCEPT !.extracted = TRUE])
          ELSE /\ calls' = [calls EXCEPT ![c].pc = "screenshot", ![c].extracted = TRUE]
               /\ browsers' = browsers
     \/ Throw(c, calls[c])
  /\ UNCHANGED <<invocations, cacheIdle>>

\* const screenshot = await page.screenshot({ encoding: 'base64' }); return
Screenshot(c) ==
  /\ calls[c].pc = "screenshot"
  /\ \/ Return(c, [calls[c] EXCEPT !.shot = TRUE])
     \/ Throw(c, calls[c])
  /\ UNCHANGED <<invocations, cacheIdle>>

\* await browser.close() completes: the browser process is gone and the
\* pending result or error reaches the caller.
CloseDone(c) ==
  /\ calls[c].pc = "closing"
  /\ browsers' = [browsers EXCEPT ![calls[c].browser[1]].open = FALSE]
  /\ calls' = [calls EXCEPT ![c].pc = "done"]
  /\ UNCHANGED <<invocations, cacheIdle>>

\* The steps of a running invocation.
Step(c) ==
  \/ Launch(c)
  \/ Setup(c)
  \/ Goto(c)
  \/ Pause(c)
  \/ ScrollTick(c)
  \/ WaitSel(c)
  \/ Extract(c)
  \/ Screenshot(c)
  \/ CloseDone(c)

NextFetch ==
  \/ \E c \in Calls, f \in Functions, w \in BOOLEAN : Start(c, f, w)
  \/ \E c \in Calls : Step(c)

SpecFetch == InitFetch /\ [][NextFetch]_vars

\* The event loop runs every continuation that is ready, and the interval
\* timer of autoScroll keeps firing.
FairSpecFetch == SpecFetch /\ \A c \in Calls : WF_vars(Step(c))

\* ------------------------------------------------------------------------
\* Claims about the dynamic fetcher
\* ------------------------------------------------------------------------

\* C1: in the three functions, once the launch has succeeded, browser.close()
\* is called exactly once on every exit path, before the result or the error
\* reaches the caller, and no launched browser stays open after its call
\* has ended.
C1_BrowserClosedOnEveryExit ==
  /\ \A c \in Calls : calls[c].browser # <<>> =>
       LET b == browsers[calls[c].browser[1]] IN
         /\ calls[c].pc = "done" => (b.closes = 1 /\ ~b.open)
         /\ calls[c].pc = "closing" => b.closes = 1
         /\ calls[c].pc \notin {"closing", "done"} => (b.closes = 0 /\ b.open)
  /\ \A id \in Calls :
       /\ browsers[id].closes <= 1
       /\ browsers[id].open =>
            \E c \in Calls : calls[c].browser = <<id>> /\ calls[c].pc # "done"

\* C1 witness: a call that launched a browser and then timed out has ended
\* with its error, the browser closed once.
C1_Witness ==
  \E c \in Calls :
    /\ calls[c].pc = "done"
    /\ calls[c].pending = "throw"
    /\ calls[c].browser # <<>>
    /\ browsers[calls[c].browser[1]].closes = 1
    /\ ~browsers[calls[c].browser[1]].open

\* C2: every suspension point of a dynamic fetch is bounded; the scroll loop
\* of autoScroll always terminates, also on a page that keeps growing, so
\* every started call eventually returns or throws.
C2_EveryCallSettles ==
  \A c \in Calls : (calls[c].pc = "scroll") ~> (calls[c].pc = "done")

\* C3: a navigation timeout or a selector-wait timeout makes the call fail:
\* no record is returned, and neither the content extraction nor the
\* screenshot is executed after it.
C3_TimeoutIsFatal ==
  \A c \in Calls : calls[c].timedOut =>
    /\ calls[c].pc \in {"closing", "done"}
    /\ calls[c].pending = "throw"
    /\ ~calls[c].extracted
    /\ ~calls[c].shot

\* C3 witness: a call whose wait timed out has delivered its error, and
\* nothing was extracted.
C3_Witness ==
  \E c \in Calls :
    /\ calls[c].timedOut
    /\ calls[c].pc = "done"
    /\ calls[c].pending = "throw"
    /\ ~calls[c].extracted

\* C4: every call launches its own browser instance; an instance is used and
\* closed only by the invocation that launched it, and no two invocations
\* hold the same instance.
C4_OneBrowserPerCall ==
  /\ \A id \in Calls :
       /\ browsers[id].users \subseteq {id}
       /\ browsers[id].closers \subseteq {id}
  /\ \A c \in Calls : calls[c].browser # <<>> =>
       /\ calls[c].browser = <<c>>
       /\ browsers[c].launched
       /\ \A d \in Calls \ {c} : calls[d].browser # calls[c].browser

\* C4 witness: two calls run at the same time, each navigating in its own
\* open browser.
C4_Witness ==
  \E c, d \in Calls :
    /\ c # d
    /\ calls[c].pc \in {"goto", "pause", "scroll", "waitsel", "extract", "screenshot"}
    /\ calls[d].pc \in {"goto", "pause", "scroll", "waitsel", "extract", "screenshot"}
    /\ browsers[calls[c].browser[1]].open
    /\ browsers[calls[d].browser[1]].open
    /\ browsers[calls[c].browser[1]].users = {c}
    /\ browsers[calls[d].browser[1]].users = {d}

\* ------------------------------------------------------------------------
\* URL allow/block list (src/lib/security/allowlist.ts)
\* ------------------------------------------------------------------------

\* String.prototype.includes: part occurs in whole as a contiguous run.
Includes(whole, part) ==
  \E i \in 1 .. (Len(whole) - Len(part) + 1) : SubSeq(whole, i, i + Len(part) - 1) = part

RECURSIVE HostEnd(_, _)
HostEnd(url, i) ==
  IF i > Len(url) \/ url[i] \in {"/", ":", "?", "#"} THEN i - 1 ELSE HostEnd(url, i + 1)

\* new URL(url).hostname: <<hostname>>, or <<>> when the constructor throws.
Hostname(url) ==
  IF Len(url) >= 3 /\ url[1] \in {"http:", "https:"} /\ url[2] = "//"
    THEN <<SubSeq(url, 3, HostEnd(url, 3))>>
    ELSE <<>>

\* isUrlAllowed(url)
isUrlAllowed(url) ==
  LET h == Hostname(url) IN
    IF h = <<>> THEN FALSE
    ELSE IF AllowedDomains = {} THEN ~\E d \in BlockedDomains : Includes(h[1], d)
    ELSE /\ \E d \in AllowedDomains : Includes(h[1], d)
         /\ ~\E d \in BlockedDomains : Includes(h[1], d)

\* ------------------------------------------------------------------------
\* Rate limiter (src/lib/middleware/rateLimit.ts)
\* ------------------------------------------------------------------------

\* rateLimit(request, limit, windowMs) at time t for the address ip: the new
\* map and whether the request is answered 429.
rateLimitOffByOne(counts, ip, limit, windowMs, t) ==
  LET found == IF ip \in DOMAIN counts THEN counts[ip]
               ELSE [count |-> 0, resetTime |-> t + windowMs]
      fresh == IF found.resetTime < t
               THEN [count |-> 0, resetTime |-> t + windowMs]
               ELSE found
      data  == [fresh EXCEPT !.count = @ + 1]
  IN [counts |-> (ip :> data) @@ counts, limited |-> data.count > limit + 1]

rateLimit(counts, ip, limit, windowMs, t) ==
  LET found == IF ip \in DOMAIN counts THEN counts[ip]
               ELSE [count |-> 0, resetTime |-> t + windowMs]
      fresh == IF found.resetTime < t
               THEN [count |-> 0, resetTime |-> t + windowMs]
               ELSE found
      data  == [fresh EXCEPT !.count = @ + 1]
  IN [counts |-> (ip :> data) @@ counts, limited |-> data.count > limit]

\* ------------------------------------------------------------------------
\* POST /api/scrape (src/app/api/scrape/route.ts).  The handler runs in
\* three steps separated by "await request.json()" and
\* "await scrapeWithCheerio(...)".
\* ------------------------------------------------------------------------

\* `scrape:${url}:${waitFor || ''}`
cacheKey(url, waitFor) ==
  <<"scrape", ":">> \o url \o <<":">> \o (IF waitFor = <<>> THEN <<>> ELSE waitFor[1])

\* The value stored under key k, read from the entries themselves.
Held(c, k) == IF KeyIndex(c, k) = 0 THEN <<>> ELSE <<c[KeyIndex(c, k)].val>>

EntrySet(c) == {c[i] : i \in 1 .. Len(c)}

Respond(status, cached, data) == [status |-> status, cached |-> cached, data |-> data]

\* The counters an address may have when the run starts: none, or the ones
\* left by nine requests it has just made to the other routes, which share
\* ipRequestCounts.
InitialCounts ==
  {<<>>} \cup {(ip :> [count |-> ScrapeLimit - 1, resetTime |-> 1 + ScrapeWindow]) : ip \in Ips}

InitScrape ==
  /\ NoFetch
  /\ NoOther
  /\ reqs = [r \in Reqs |-> IdleReq]
  /\ ipRequestCounts \in InitialCounts
  /\ arrivals = 0
  /\ cache = <<>>
  /\ now = 1
  /\ lastGet = NoGet
  /\ lastSet = [k \in CacheKeys |-> Undefined]
  /\ recency = <<>>
  /\ dropped = {}
  /\ overwritten = {}
  /\ lruBefore = <<>>

scrapeIdle == <<lastGet, lastSet, recency, dropped, overwritten, lruBefore, fetchVars, otherVars>>

\* A request arrives: rateLimit, then "await request.json()".  A request
\* refused by the rate limiter is answered before its body is read.  The
\* handler slots are interchangeable; a request takes the first free one.
PostArrive(r, ip, body) ==
  /\ reqs[r].pc \in {"idle", "done"}
  /\ \A q \in Reqs : q < r => reqs[q].pc \notin {"idle", "done"}
  /\ arrivals < MaxArrivals
  /\ arrivals' = arrivals + 1
  /\ LET rl == rateLimit(ipRequestCounts, ip, ScrapeLimit, ScrapeWindow, now) IN
       /\ ipRequestCounts' = rl.counts
       /\ reqs' = [reqs EXCEPT ![r] =
            IF rl.limited
              THEN [IdleReq EXCEPT !.pc = "done", !.ip = ip,
                                   !.resp = Respond(429, FALSE, <<>>)]
              ELSE [IdleReq EXCEPT !.pc = "json", !.ip = ip, !.body = body]]
  /\ UNCHANGED <<cache, now, scrapeIdle>>

\* The body is parsed: 500 on invalid JSON, 400 without url; otherwise the
\* cache is looked up under cacheKey and either the cached result is
\* returned or scrapeWithCheerio(url, waitFor) is started.
PostLookupIgnoresCache(r) ==
  /\ reqs[r].pc = "json"
  /\ LET b == reqs[r].body IN
       IF ~b.valid THEN
         /\ reqs' = [reqs EXCEPT ![r].pc = "done", ![r].resp = Respond(500, FALSE, <<>>)]
         /\ cache' = cache
       ELSE IF b.url = <<>> THEN
         /\ reqs' = [reqs EXCEPT ![r].pc = "done", ![r].resp = Respond(400, FALSE, <<>>)]
         /\ cache' = cache
       ELSE
         LET g == LRUGet(cache, cacheKey(b.url[1], b.waitFor), now) IN
           /\ cache' = g.cache
           /\ reqs' = [reqs EXCEPT ![r].pc = "fetching", ![r].looked = <<g.value>>,
                                    ![r].fetched = TRUE]
  /\ UNCHANGED <<now, ipRequestCounts, arrivals, scrapeIdle>>

PostLookup(r) ==
  /\ reqs[r].pc = "json"
  /\ LET b == reqs[r].body IN
       IF ~b.valid THEN
         /\ reqs' = [reqs EXCEPT ![r].pc = "done", ![r].resp = Respond(500, FALSE, <<>>)]
         /\ cache' = cache
       ELSE IF b.url = <<>> THEN
         /\ reqs' = [reqs EXCEPT ![r].pc = "done", ![r].resp = Respond(400, FALSE, <<>>)]
         /\ cache' = cache
       ELSE
         LET g == LRUGet(cache, cacheKey(b.url[1], b.waitFor), now) IN
           /\ cache' = g.cache
           /\ IF g.value # Undefined
                THEN reqs' = [reqs EXCEPT ![r].pc = "done", ![r].looked = <<g.value>>,
                                ![r].wrote = (EntrySet(g.cache) # EntrySet(cache)),
                                ![r].resp = Respond(200, TRUE, g.value)]
                ELSE reqs' = [reqs EXCEPT ![r].pc = "fetching", ![r].looked = <<g.value>>,
                                ![r].fetched = TRUE]
  /\ UNCHANGED <<now, ipRequestCounts, arrivals, scrapeIdle>>

\* The result object built from a fetched page (page.tsx:95-108).
Result(b, page, t) == [url |-> b.url[1], waitFor |-> b.waitFor, timestamp |-> t, page |-> page]

\* The handler with a setCacheItem that leaves an entry that is already
\* held under the key alone.
PostFetchDoneKeepsFirst(r) ==
  /\ reqs[r].pc = "fetching"
  /\ \/ \E page \in Pages :
          LET b == reqs[r].body
              k == cacheKey(b.url[1], b.waitFor)
              result == Result(b, page, now)
              c2 == IF Held(cache, k) # <<>> THEN cache
                    ELSE LRUSet(cache, k, <<result>>, <<ScrapeTTL>>, now) IN
            /\ cache' = c2
            /\ reqs' = [reqs EXCEPT ![r].pc = "done", ![r].wrote = TRUE,
                                     ![r].readBack = Held(c2, k),
                                     ![r].resp = Respond(200, FALSE, <<result>>)]
     \/ /\ reqs' = [reqs EXCEPT ![r].pc = "done", ![r].resp = Respond(500, FALSE, <<>>)]
        /\ cache' = cache
  /\ UNCHANGED <<now, ipRequestCounts, arrivals, scrapeIdle>>

\* scrapeWithCheerio settles: on success the result is built, cached for
\* one hour and returned; on failure the handler answers 500.
PostFetchDone(r) ==
  /\ reqs[r].pc = "fetching"
  /\ \/ \E page \in Pages :
          LET b == reqs[r].body
              k == cacheKey(b.url[1], b.waitFor)
              result == Result(b, page, now)
              c2 == LRUSet(cache, k, <<result>>, <<ScrapeTTL>>, now) IN
            /\ cache' = c2
            /\ reqs' = [reqs EXCEPT ![r].pc = "done", ![r].wrote = TRUE,
                                     ![r].readBack = Held(c2, k),
                                     ![r].resp = Respond(200, FALSE, <<result>>)]
     \/ /\ reqs' = [reqs EXCEPT ![r].pc = "done", ![r].resp = Respond(500, FALSE, <<>>)]
        /\ cache' = cache
  /\ UNCHANGED <<now, ipRequestCounts, arrivals, scrapeIdle>>

\* Time passes between two steps of the handlers.
ScrapeTick(t) ==
  /\ t > now
  /\ now' = t
  /\ UNCHANGED <<cache, scrapeVars, scrapeIdle>>

NextScrape ==
  \/ \E r \in Reqs, ip \in Ips, body \in Bodies : PostArrive(r, ip, body)
  \/ \E r \in Reqs : PostLookup(r)
  \/ \E r \in Reqs : PostFetchDone(r)
  \/ \E t \in ScrapeClock : ScrapeTick(t)

SpecScrape == InitScrape /\ [][NextScrape]_vars

\* ------------------------------------------------------------------------
\* Claims about POST /api/scrape
\* ------------------------------------------------------------------------

\* C5: the handler consults the URL allow/block list before any fetch: no
\* fetch is started for a URL for which isUrlAllowed has not returned true.
C5_AllowListBeforeFetch ==
  \A r \in Reqs : reqs[r].fetched => reqs[r].allowed = <<TRUE>>

\* C6: the fetcher is invoked only after the lookup under the key of
\* (url, waitFor) has missed; on a hit the response carries the cached
\* value, nothing is fetched and the cache is not written; after a miss and
\* a successful fetch the result is held under that key when the response
\* is returned.
C6_CacheBeforeFetch ==
  \A r \in Reqs :
    /\ reqs[r].fetched => reqs[r].looked = <<Undefined>>
    /\ (reqs[r].looked # <<>> /\ reqs[r].looked # <<Undefined>>) =>
         /\ reqs[r].pc = "done"
         /\ reqs[r].resp = Respond(200, TRUE, reqs[r].looked[1])
         /\ ~reqs[r].fetched
         /\ ~reqs[r].wrote
    /\ (reqs[r].resp.status = 200 /\ ~reqs[r].resp.cached) =>
         /\ reqs[r].fetched
         /\ reqs[r].wrote
         /\ reqs[r].readBack = reqs[r].resp.data

\* C6 witness: one request has fetched and cached a result, and another
\* request for the same url and waitFor was answered with that cached value
\* without a fetch.
C6_Witness ==
  \E r, q \in Reqs :
    /\ r # q
    /\ reqs[r].pc = "done" /\ reqs[r].fetched /\ reqs[r].resp.status = 200
    /\ reqs[q].pc = "done" /\ ~reqs[q].fetched /\ reqs[q].resp.cached
    /\ reqs[q].resp.data = reqs[r].resp.data
    /\ reqs[q].body = reqs[r].body

\* C27: when requests for the same (url, waitFor) have both missed the
\* cache, each of them fetches and answers with the result of its own
\* fetch, and when one of them has stored its result the cache holds
\* exactly one entry under the key, the whole result of that writer: after
\* the last of them it is the result of the last writer.
C27_ConcurrentMissesLastWriterWins ==
  [][\A r \in Reqs :
       (reqs[r].pc = "fetching" /\ reqs'[r].pc = "done" /\ reqs'[r].resp.status = 200) =>
         LET b == reqs[r].body
             k == cacheKey(b.url[1], b.waitFor) IN
           /\ reqs[r].looked = <<Undefined>>
           /\ ~reqs'[r].resp.cached
           /\ \E page \in Pages : reqs'[r].resp.data = <<Result(b, page, now)>>
           /\ Cardinality({i \in 1 .. Len(cache') : cache'[i].key = k}) = 1
           /\ Held(cache', k) = reqs'[r].resp.data]_vars

\* C27 witness: two requests for the same url and waitFor have both missed
\* and fetched at the same instant, they were answered with different
\* results, and the cache holds one entry under their key, the result of
\* one of them.
C27_Witness ==
  \E r, q \in Reqs :
    /\ r # q
    /\ reqs[r].pc = "done" /\ reqs[r].fetched /\ reqs[r].resp.status = 200
    /\ reqs[q].pc = "done" /\ reqs[q].fetched /\ reqs[q].resp.status = 200
    /\ reqs[q].body = reqs[r].body
    /\ reqs[q].resp.data # reqs[r].resp.data
    /\ reqs[q].resp.data[1].timestamp = reqs[r].resp.data[1].timestamp
    /\ LET k == cacheKey(reqs[r].body.url[1], reqs[r].body.waitFor) IN
         /\ Cardinality({i \in 1 .. Len(cache) : cache[i].key = k}) = 1
         /\ Held(cache, k) = reqs[q].resp.data
         /\ reqs[r].readBack = reqs[r].resp.data

\* ------------------------------------------------------------------------
\* Static fetcher: scrapeWithCheerio (src/lib/scraping/cheerio.ts).  A call
\* suspends at "await fetch(url, ...)" and at "await response.text()".
\* ------------------------------------------------------------------------

cacheVars == <<cache, now, lastGet, lastSet, recency, dropped, overwritten, lruBefore>>
staticIdle == <<cacheVars, fetchVars, scrapeVars, ldVars, textVars, rateVars, retryVars, authVars, historyVars,
              auditVars>>

\* Status codes of the responses a server may send.
Statuses == {200, 204, 404, 500}

\* Response.ok: the status is in the range 200-299.
responseOk(status) == status >= 200 /\ status <= 299

\* Bodies a server may send.
Htmls == {"<html>1</html>", "<html>2</html>"}

\* Keys of the object scrapeWithCheerio returns (cheerio.ts:50-57).
CheerioFields == {"title", "metaDescription", "bodyText", "links", "images", "html"}

InitStatic == InitFetch

\* A caller invokes scrapeWithCheerio(url, waitFor): fetch(url, { headers })
\* is called and the call suspends.  waitFor is not used by the function.
CheerioStart(c, url, w) ==
  /\ cheerioCalls[c].pc \in {"idle", "done"}
  /\ cheerioStarted < MaxInvocations
  /\ cheerioStarted' = cheerioStarted + 1
  /\ cheerioCalls' = [cheerioCalls EXCEPT ![c] =
       [IdleCheerio EXCEPT !.pc = "fetch", !.url = <<url>>, !.requests = 1]]
  /\ UNCHANGED staticIdle

\* The promise of fetch settles: a response arrives, and "if (!response.ok)
\* throw" decides; or the request fails and fetch rejects.  The catch block
\* logs and rethrows.
CheerioResponseRetries(c) ==
  /\ cheerioCalls[c].pc = "fetch"
  /\ \/ \E st \in Statuses :
          cheerioCalls' = [cheerioCalls EXCEPT ![c] =
            IF responseOk(st)
              THEN [@ EXCEPT !.pc = "text", !.status = <<st>>]
              ELSE IF @.requests = 1
                THEN [@ EXCEPT !.requests = 2]
                ELSE [@ EXCEPT !.pc = "done", !.status = <<st>>, !.outcome = "throw"]]
     \/ cheerioCalls' = [cheerioCalls EXCEPT ![c].pc = "done", ![c].outcome = "throw"]
  /\ UNCHANGED <<cheerioStarted, staticIdle>>

CheerioResponse(c) ==
  /\ cheerioCalls[c].pc = "fetch"
  /\ \/ \E st \in Statuses :
          cheerioCalls' = [cheerioCalls EXCEPT ![c] =
            IF responseOk(st)
              THEN [@ EXCEPT !.pc = "text", !.status = <<st>>]
              ELSE [@ EXCEPT !.pc = "done", !.status = <<st>>, !.outcome = "throw"]]
     \/ cheerioCalls' = [cheerioCalls EXCEPT ![c].pc = "done", ![c].outcome = "throw"]
  /\ UNCHANGED <<cheerioStarted, staticIdle>>

\* The promise of response.text() settles: with the body, which is loaded
\* into cheerio and the record is returned; or the transfer breaks off.
CheerioText(c) ==
  /\ cheerioCalls[c].pc = "text"
  /\ \/ \E h \in Htmls :
          cheerioCalls' = [cheerioCalls EXCEPT ![c].pc = "done", ![c].outcome = "return",
                             ![c].result = <<[fields |-> CheerioFields, html |-> h]>>]
     \/ cheerioCalls' = [cheerioCalls EXCEPT ![c].pc = "done", ![c].outcome = "throw"]
  /\ UNCHANGED <<cheerioStarted, staticIdle>>

NextStatic ==
  \/ \E c \in Calls, url \in ScrapeUrls, w \in {<<>>, <<Selector>>} : CheerioStart(c, url, w)
  \/ \E c \in Calls : CheerioResponse(c)
  \/ \E c \in Calls : CheerioText(c)

SpecStatic == InitStatic /\ [][NextStatic]_vars

\* C11: a call of scrapeWithCheerio sends exactly one HTTP request and never
\* a second one; it returns only after a 2xx response, and then a record
\* that has html and no screenshot; after a non-2xx response or a network
\* error it throws, having sent one request.
C11_OneRequestNoRetry ==
  \A c \in Calls :
    LET cl == cheerioCalls[c] IN
      /\ cl.pc # "idle" => cl.requests = 1
      /\ cl.outcome = "return" =>
           /\ cl.status # <<>> /\ responseOk(cl.status[1])
           /\ "html" \in cl.result[1].fields
           /\ "screenshot" \notin cl.result[1].fields
      /\ (cl.pc = "done" /\ (cl.status = <<>> \/ ~responseOk(cl.status[1]))) =>
           /\ cl.outcome = "throw"
           /\ cl.result = <<>>
           /\ cl.requests = 1

\* C11 witness: one call has returned a record after a 2xx response and
\* another has thrown after a 404, each after one request.
C11_Witness ==
  \E c, d \in Calls :
    /\ cheerioCalls[c].pc = "done" /\ cheerioCalls[c].outcome = "return"
    /\ cheerioCalls[c].requests = 1 /\ cheerioCalls[c].result # <<>>
    /\ cheerioCalls[d].pc = "done" /\ cheerioCalls[d].outcome = "throw"
    /\ cheerioCalls[d].status = <<404>> /\ cheerioCalls[d].requests = 1

\* ------------------------------------------------------------------------
\* extractStructuredData (src/lib/scraping/cheerio.ts): the JSON-LD script
\* blocks of a document.  A text is a sequence of tokens; a JSON value is
\* written as its tokens without white space.
\* ------------------------------------------------------------------------

ldIdle == <<cacheVars, fetchVars, scrapeVars, staticVars, textVars, rateVars, retryVars, authVars, historyVars,
              auditVars>>

\* Contents of a script block: empty, well-formed JSON (with and without
\* white space around it) and malformed JSON.
BlockTexts ==
  { <<>>,
    <<"{", "}">>,
    <<" ", "1", " ">>,
    <<"[", "1", ",", "{", "}", "]">>,
    <<"{">>,
    <<"[", "1", ",", "]">>,
    <<" ">> }

\* Documents: up to MaxBlocks script blocks of type application/ld+json.
RECURSIVE SeqsUpTo(_, _)
SeqsUpTo(S, n) ==
  IF n = 0 THEN {<<>>}
  ELSE LET shorter == SeqsUpTo(S, n - 1) IN
    shorter \cup {Append(q, x) : q \in {r \in shorter : Len(r) = n - 1}, x \in S}

Documents == SeqsUpTo(BlockTexts, MaxBlocks)

\* JSON white space between tokens is insignificant.
StripSpace(text) == SelectSeq(text, LAMBDA t : t # " ")

\* JSON.parse, for the values 1, {}, [] and arrays of values: the position
\* after the value that starts at position i of ts, or 0 on a syntax error.
RECURSIVE ParseValue(_, _)
RECURSIVE ParseElements(_, _)
ParseValue(ts, i) ==
  IF i > Len(ts) THEN 0
  ELSE IF ts[i] = "1" THEN i + 1
  ELSE IF ts[i] = "{" THEN (IF i + 1 <= Len(ts) /\ ts[i + 1] = "}" THEN i + 2 ELSE 0)
  ELSE IF ts[i] = "[" THEN
    (IF i + 1 <= Len(ts) /\ ts[i + 1] = "]" THEN i + 2 ELSE ParseElements(ts, i + 1))
  ELSE 0

ParseElements(ts, i) ==
  LET j == ParseValue(ts, i) IN
    IF j = 0 \/ j > Len(ts) THEN 0
    ELSE IF ts[j] = "," THEN ParseElements(ts, j + 1)
    ELSE IF ts[j] = "]" THEN j + 1
    ELSE 0

\* JSON.parse(text): the value, or a SyntaxError.
JSONParse(text) ==
  LET ts == StripSpace(text) IN
    IF ParseValue(ts, 1) = Len(ts) + 1
      THEN [ok |-> TRUE, value |-> ts]
      ELSE [ok |-> FALSE, value |-> <<>>]

\* The callback of .each: JSON.parse($(el).html() || '{}'), push on
\* success, log on a SyntaxError.  The empty string is falsy.
RECURSIVE ParseBlocks(_, _)
ParseBlocks(blocks, acc) ==
  IF blocks = <<>> THEN acc
  ELSE LET text == IF Head(blocks) = <<>> THEN <<"{", "}">> ELSE Head(blocks)
           p == JSONParse(text) IN
    ParseBlocks(Tail(blocks), IF p.ok THEN Append(acc, p.value) ELSE acc)

InitJsonLd ==
  /\ NoFetch
  /\ NoAuth
  /\ NoHistory
  /\ NoAudit
  /\ NoScrape
  /\ NoStatic
  /\ IdleCache
  /\ NoText
  /\ NoRateLog
  /\ NoRetry
  /\ ldBlocks \in Documents
  /\ structuredData = <<>>

\* extractStructuredData(html)
extractStructuredData ==
  /\ structuredData = <<>>
  /\ structuredData' = <<ParseBlocks(ldBlocks, <<>>)>>
  /\ UNCHANGED <<ldBlocks, ldIdle>>

NextJsonLd == extractStructuredData

SpecJsonLd == InitJsonLd /\ [][NextJsonLd]_vars

\* The parsed values of the well-formed blocks of a document, in order.
RECURSIVE WellFormedValues(_)
WellFormedValues(blocks) ==
  IF blocks = <<>> THEN <<>>
  ELSE LET p == JSONParse(Head(blocks)) IN
    (IF p.ok THEN <<p.value>> ELSE <<>>) \o WellFormedValues(Tail(blocks))

\* C12: for every document, extractStructuredData returns exactly the parsed
\* values of the blocks that are well-formed JSON, in document order, and
\* nothing for a block that is not.
C12_ExactlyTheWellFormedBlocks ==
  structuredData # <<>> => structuredData[1] = WellFormedValues(ldBlocks)

\* ------------------------------------------------------------------------
\* Text normalisation: $('body').text().trim().replace(/\s+/g, ' ')
\* (cheerio.ts:33) and document.body.innerText.trim().replace(/\s+/g, ' ')
\* (puppeteer.ts:51 and 230).  A text is a sequence of characters.
\* ------------------------------------------------------------------------

textIdle == <<cacheVars, fetchVars, scrapeVars, staticVars, ldVars, rateVars, retryVars, authVars, historyVars,
              auditVars>>

\* Characters that String.prototype.trim strips and that \s matches (the
\* two sets are the same: WhiteSpace and LineTerminator); "nbsp" is U+00A0.
WhiteSpaceChars == {" ", "\t", "\n", "nbsp"}

\* Characters of a page text.
TextChars == {"a"} \cup WhiteSpaceChars

BodyTexts == SeqsUpTo(TextChars, MaxLen)

RECURSIVE TrimStart(_)
TrimStart(s) ==
  IF s # <<>> /\ Head(s) \in WhiteSpaceChars THEN TrimStart(Tail(s)) ELSE s

RECURSIVE TrimEnd(_)
TrimEnd(s) ==
  IF s # <<>> /\ s[Len(s)] \in WhiteSpaceChars THEN TrimEnd(SubSeq(s, 1, Len(s) - 1)) ELSE s

\* String.prototype.trim
TrimLeadingOnly(s) == TrimStart(s)

Trim(s) == TrimEnd(TrimStart(s))

\* .replace(/\s+/g, ' '): every maximal run of white space becomes one space.
RECURSIVE CollapseWhitespace(_)
CollapseWhitespace(s) ==
  IF s = <<>> THEN <<>>
  ELSE IF Head(s) \in WhiteSpaceChars THEN <<" ">> \o CollapseWhitespace(TrimStart(s))
  ELSE <<Head(s)>> \o CollapseWhitespace(Tail(s))

NormalizeText(s) == CollapseWhitespace(Trim(s))

InitText ==
  /\ NoFetch
  /\ NoAuth
  /\ NoHistory
  /\ NoAudit
  /\ NoScrape
  /\ NoStatic
  /\ NoJsonLd
  /\ NoRateLog
  /\ NoRetry
  /\ IdleCache
  /\ rawText \in BodyTexts
  /\ bodyText = <<>>

\* The fetcher computes bodyText from the text of the body element.
ExtractBodyText ==
  /\ bodyText = <<>>
  /\ bodyText' = <<NormalizeText(rawText)>>
  /\ UNCHANGED <<rawText, textIdle>>

NextText == ExtractBodyText

SpecText == InitText /\ [][NextText]_vars

\* C13: bodyText has no two consecutive spaces, no white space character
\* other than the space, and no white space at its start or its end.
C13_BodyTextIsNormalized ==
  bodyText # <<>> =>
    LET b == bodyText[1] IN
      /\ \A i \in 1 .. Len(b) - 1 : ~(b[i] = " " /\ b[i + 1] = " ")
      /\ \A i \in 1 .. Len(b) : b[i] \in WhiteSpaceChars => b[i] = " "
      /\ b # <<>> => (b[1] \notin WhiteSpaceChars /\ b[Len(b)] \notin WhiteSpaceChars)

\* C13 witness: a text with leading white space and an inner run of a tab
\* and a space has been normalised to "a a".
C13_Witness ==
  /\ bodyText = << <<"a", " ", "a">> >>
  /\ rawText = <<"\n", "a", "\t", " ", "a">>

\* ------------------------------------------------------------------------
\* Rate limiter (src/lib/middleware/rateLimit.ts) on its own: requests of
\* some addresses that are all checked against the same limit.
\* ------------------------------------------------------------------------

rateIdle == <<cache, lastGet, lastSet, recency, dropped, overwritten, lruBefore,
              fetchVars, reqs, arrivals, staticVars, ldVars, textVars, retryVars,
              authVars, historyVars, auditVars>>

\* request.ip || 'unknown': the addresses of two clients, and the key shared
\* by the requests that carry no address.
RateIps == Ips \cup {"unknown"}

\* Instants at which requests arrive: the start, and for every later window
\* the last instant before a reset time has passed and the first after it.
RateClock ==
  {1} \cup {1 + w * ScrapeWindow + (w - 1) + d : w \in 1 .. MaxWindows, d \in {0, 1}}

NoWindow == [opened |-> 0, reset |-> 0, total |-> 0, admitted |-> 0]

NoRate == [ip |-> "", limited |-> FALSE, opens |-> FALSE, before |-> 0]

InitRate ==
  /\ NoFetch
  /\ NoAuth
  /\ NoHistory
  /\ NoAudit
  /\ NoStatic
  /\ NoJsonLd
  /\ NoText
  /\ NoRetry
  /\ IdleCache
  /\ reqs = [r \in Reqs |-> IdleReq]
  /\ arrivals = 0
  /\ ipRequestCounts = <<>>
  /\ rateWindow = [ip \in RateIps |-> NoWindow]
  /\ lastRate = NoRate
  /\ rateCalls = 0

\* rateLimit(request, limit, windowMs) for a request of address ip.  The
\* window of the address is kept beside the map: it is opened by the first
\* request and by every request that arrives after the reset time of the
\* window before has passed.
RateRequest(ip) ==
  /\ rateCalls < MaxRateCalls
  /\ rateCalls' = rateCalls + 1
  /\ LET rl == rateLimit(ipRequestCounts, ip, Limit, ScrapeWindow, now)
         w == rateWindow[ip]
         opens == w.opened = 0 \/ w.reset < now
         cur == IF opens THEN [NoWindow EXCEPT !.opened = now, !.reset = now + ScrapeWindow]
                ELSE w IN
       /\ ipRequestCounts' = rl.counts
       /\ rateWindow' = [rateWindow EXCEPT ![ip] =
            [cur EXCEPT !.total = @ + 1,
                        !.admitted = IF rl.limited THEN @ ELSE @ + 1]]
       /\ lastRate' = [ip |-> ip, limited |-> rl.limited, opens |-> opens, before |-> cur.total]
  /\ UNCHANGED <<now, rateIdle>>

\* clearExpiredRateLimits()
clearExpiredRateLimits ==
  /\ \E ip \in DOMAIN ipRequestCounts : ipRequestCounts[ip].resetTime < now
  /\ ipRequestCounts' =
       LET kept == {ip \in DOMAIN ipRequestCounts : ~(ipRequestCounts[ip].resetTime < now)}
       IN [ip \in kept |-> ipRequestCounts[ip]]
  /\ lastRate' = NoRate
  /\ UNCHANGED <<now, rateWindow, rateCalls, rateIdle>>

\* Time passes between two requests.
RateTick(t) ==
  /\ t > now
  /\ now' = t
  /\ lastRate' = NoRate
  /\ UNCHANGED <<ipRequestCounts, rateWindow, rateCalls, rateIdle>>

NextRate ==
  \/ \E ip \in RateIps : RateRequest(ip)
  \/ clearExpiredRateLimits
  \/ \E t \in RateClock : RateTick(t)

SpecRate == InitRate /\ [][NextRate]_vars

\* C14: for every address, at most Limit requests are admitted in one
\* window; a request that arrives in a window in which Limit requests have
\* already arrived gets the 429 response; a request that arrives after the
\* reset time of the window has passed opens a new window and is admitted.
C14_AtMostLimitPerWindow ==
  /\ \A ip \in RateIps : rateWindow[ip].admitted <= Limit
  /\ lastRate.ip # "" =>
       /\ (~lastRate.opens /\ lastRate.before >= Limit) => lastRate.limited
       /\ lastRate.opens => ~lastRate.limited
       /\ lastRate.limited => lastRate.before >= Limit

\* C14 witness: in its second window an address has been admitted Limit
\* times and its latest request, still inside that window, was refused.
C14_Witness ==
  /\ lastRate.ip # "" /\ lastRate.limited /\ ~lastRate.opens
  /\ rateWindow[lastRate.ip].opened > 1
  /\ rateWindow[lastRate.ip].admitted = Limit
  /\ now = rateWindow[lastRate.ip].reset

\* ------------------------------------------------------------------------
\* processWithRetry and processWithMCPRetry (src/lib/groq/errorHandler.ts).
\* The two functions differ only in the processor they call.  The loop
\* suspends at "await new Promise(resolve => setTimeout(resolve, delay))"
\* and at the await of the processor.
\* ------------------------------------------------------------------------

retryIdle == <<cacheVars, fetchVars, scrapeVars, staticVars, ldVars, textVars, rateVars, authVars, historyVars,
              auditVars>>

\* Defaults of the options (errorHandler.ts:28-31).
maxRetriesDefault == 3
initialDelay == 1000
maxDelay == 10000
backoffFactor == 2

Min(a, b) == IF a < b THEN a ELSE b

Processors == {"processWithGroq", "processWithMCP"}

\* options.maxRetries: not given, or a number; the type RetryOptions admits
\* every number, negative ones included.
RetryArgs == {<<>>} \cup {<<n>> : n \in -1 .. MaxRetriesArg}

\* Results and error messages of the processor.
ProcessorResults == {"result1", "result2"}
ProcessorErrors == {"error1", "error2"}

IdleRetry ==
  [pc |-> "idle", fn |-> "", maxRetries |-> 0, attempt |-> 0, delay |-> 0,
   calls |-> 0, errors |-> <<>>, outcome |-> "none", result |-> <<>>, message |-> <<>>]

InitRetry ==
  /\ NoFetch
  /\ NoAuth
  /\ NoHistory
  /\ NoAudit
  /\ NoScrape
  /\ NoStatic
  /\ NoJsonLd
  /\ NoText
  /\ NoRateLog
  /\ IdleCache
  /\ retry = IdleRetry

\* The loop condition "attempt <= maxRetries" has failed: the statement
\* after the loop throws 'Unexpected error in retry mechanism:
\* ${lastError?.message}'.
AfterLoop(r) ==
  [r EXCEPT !.pc = "done", !.outcome = "unexpected",
     !.message = <<"Unexpected error in retry mechanism:",
                   IF r.errors = <<>> THEN "undefined" ELSE r.errors[Len(r.errors)]>>]

\* The function is called: when the loop is entered, attempt 0 calls the
\* processor without a delay.
RetryStart(fn, arg) ==
  /\ retry.pc = "idle"
  /\ LET maxRetries == IF arg = <<>> THEN maxRetriesDefault ELSE arg[1]
         started == [IdleRetry EXCEPT !.fn = fn, !.maxRetries = maxRetries,
                       !.delay = initialDelay]
     IN retry' = IF 0 <= maxRetries
                   THEN [started EXCEPT !.pc = "calling", !.calls = 1]
                   ELSE AfterLoop(started)
  /\ UNCHANGED retryIdle

\* The processor settles.  Success: return result.  Failure: the catch block
\* records the error and throws 'Failed after <maxRetries + 1> attempts:
\* <message>' on the last attempt; otherwise the loop goes on to the next
\* attempt when "attempt <= maxRetries" holds, which first waits.
ProcessorSettlesOneMore ==
  /\ retry.pc = "calling"
  /\ \/ \E r \in ProcessorResults :
          retry' = [retry EXCEPT !.pc = "done", !.outcome = "return", !.result = <<r>>]
     \/ \E e \in ProcessorErrors :
          retry' =
            IF retry.attempt = retry.maxRetries + 1
              THEN [retry EXCEPT !.pc = "done", !.outcome = "throw",
                      !.errors = Append(@, e),
                      !.message = <<"Failed after", retry.maxRetries + 1, "attempts:", e>>]
              ELSE IF retry.attempt + 1 <= retry.maxRetries
                THEN [retry EXCEPT !.pc = "waiting", !.errors = Append(@, e),
                        !.attempt = @ + 1]
                ELSE AfterLoop([retry EXCEPT !.errors = Append(@, e), !.attempt = @ + 1])
  /\ UNCHANGED retryIdle

ProcessorSettles ==
  /\ retry.pc = "calling"
  /\ \/ \E r \in ProcessorResults :
          retry' = [retry EXCEPT !.pc = "done", !.outcome = "return", !.result = <<r>>]
     \/ \E e \in ProcessorErrors :
          retry' =
            IF retry.attempt = retry.maxRetries
              THEN [retry EXCEPT !.pc = "done", !.outcome = "throw",
                      !.errors = Append(@, e),
                      !.message = <<"Failed after", retry.maxRetries + 1, "attempts:", e>>]
              ELSE IF retry.attempt + 1 <= retry.maxRetries
                THEN [retry EXCEPT !.pc = "waiting", !.errors = Append(@, e),
                        !.attempt = @ + 1]
                ELSE AfterLoop([retry EXCEPT !.errors = Append(@, e), !.attempt = @ + 1])
  /\ UNCHANGED retryIdle

\* The timer fires: the delay of the next attempt is computed and the
\* processor is called again.
RetryWake ==
  /\ retry.pc = "waiting"
  /\ retry' = [retry EXCEPT !.pc = "calling", !.calls = @ + 1,
                 !.delay = Min(@ * backoffFactor, maxDelay)]
  /\ UNCHANGED retryIdle

NextRetry ==
  \/ \E fn \in Processors, arg \in RetryArgs : RetryStart(fn, arg)
  \/ ProcessorSettles
  \/ RetryWake

SpecRetry == InitRetry /\ [][NextRetry]_vars

\* C15: the processor is called at most maxRetries + 1 times; the function
\* returns the result of the first attempt that succeeds, every attempt
\* before it having failed, and calls no more; when it ends after attempts
\* that have all failed it throws, and it throws only after maxRetries + 1
\* failed attempts, 'Failed after <maxRetries + 1> attempts' with the
\* message of the last failure.
C15_BoundedRetries ==
  /\ retry.calls <= retry.maxRetries + 1
  /\ retry.outcome = "return" =>
       /\ retry.pc = "done"
       /\ retry.result # <<>>
       /\ Len(retry.errors) = retry.calls - 1
  /\ (retry.pc = "done" /\ retry.calls >= 1 /\ Len(retry.errors) = retry.calls) =>
       retry.outcome = "throw"
  /\ retry.outcome = "throw" =>
       /\ retry.pc = "done"
       /\ retry.calls = retry.maxRetries + 1
       /\ Len(retry.errors) = retry.maxRetries + 1
       /\ retry.message =
            <<"Failed after", retry.maxRetries + 1, "attempts:", retry.errors[Len(retry.errors)]>>

\* C15 witness: with the default of three retries all four attempts have
\* failed, with different messages, and the function has thrown the last.
C15_Witness ==
  /\ retry.outcome = "throw"
  /\ retry.maxRetries = maxRetriesDefault
  /\ retry.calls = maxRetriesDefault + 1
  /\ retry.errors[1] # retry.errors[Len(retry.errors)]

\* ------------------------------------------------------------------------
\* Accounts and sessions (src/lib/auth/auth.ts)
\* User records and sessions are entries of the result cache, which they
\* share with the cached results of the scrape and process routes.  A key
\* `${prefix}${rest}` is the pair <<prefix, rest>>: no prefix is a prefix
\* of another one, so two keys are equal exactly when the pairs are.
\* A stored value carries its JavaScript type in the field kind; null is
\* the only falsy value that is ever stored.  A function that returns
\* "T | null" returns <<>> for null and <<v>> for the value v.
\* ------------------------------------------------------------------------

authIdle == <<lastGet, lastSet, recency, dropped, overwritten, lruBefore,
              fetchVars, scrapeVars, staticVars, ldVars, textVars, rateVars, retryVars,
              historyVars, auditVars>>

USERS_CACHE_PREFIX == "auth:user:"
SESSIONS_CACHE_PREFIX == "auth:session:"

UserKey(email) == <<USERS_CACHE_PREFIX, email>>
SessionKey(token) == <<SESSIONS_CACHE_PREFIX, token>>

\* The clock of the account and history specifications counts minutes: the
\* TTLs used there are whole minutes and 30 days of milliseconds exceed the
\* 32-bit integers of the model checker.  Calls happen at whole minutes, so
\* "now - start > ttl" has the value it has in milliseconds.
Minute == 60 * 1000
Day == 24 * 60
\* TTL of a user record, 30 * 24 * 60 * 60 * 1000 ms (auth.ts:44), and of a
\* session, 7 * 24 * 60 * 60 * 1000 ms (auth.ts:80).
UserTTL == 30 * Day
SessionTTL == 7 * Day

Null == [kind |-> "null"]
Truthy(v) == v.kind # "null"

Emails == {"a@x"}
Passwords == {"pw1", "pw2"}
\* crypto.randomBytes(16).toString('hex')
Salts == {"s1"}

\* crypto.pbkdf2Sync(password, salt, 1000, 64, 'sha512'): equal digests
\* come from equal passwords and salts.
pbkdf2Sync(password, salt) == <<password, salt>>

\* Session tokens are crypto.randomBytes(32): the n-th token issued is n,
\* different from every token issued before and from the value 0, which
\* stands for a cookie value that loginUser never returns.
CookieValues == {<<>>} \cup {<<t>> : t \in 0 .. Len(issued)}

\* The instants at which the accounts are observed: the start, and a
\* moment at which the user records, the sessions and the cached results
\* of the start have expired.
AuthClock == {1, 2 + UserTTL}

\* What getCacheItem can still return: the entries that have not expired.
Visible(c, t) ==
  {[key |-> c[i].key, val |-> c[i].val] : i \in {j \in 1 .. Len(c) : ~IsStale(c[j], t)}}

\* const { passwordHash: _, ...userWithoutPassword } = user
WithoutPassword(user) ==
  [kind |-> "user", id |-> user.id, email |-> user.email, createdAt |-> user.createdAt]

AuthCall(op, email, password, cookie, outcome, user, before) ==
  [op |-> op, email |-> email, password |-> password, cookie |-> cookie,
   outcome |-> outcome, user |-> user, before |-> before]

InitAuth ==
  /\ NoFetch
  /\ NoScrape
  /\ NoStatic
  /\ NoJsonLd
  /\ NoText
  /\ NoRateLog
  /\ NoRetry
  /\ NoHistory
  /\ NoAudit
  /\ IdleCache
  /\ NoAuth

\* registerUser(email, password) without the check for an existing user.
registerUserOverwrites(email, password) ==
  /\ registered < MaxUsers
  /\ \E salt \in Salts :
       LET user == [kind |-> "user", id |-> registered + 1, email |-> email,
                    passwordHash |-> <<salt, pbkdf2Sync(password, salt)>>,
                    createdAt |-> now] IN
         /\ cache' = LRUSet(cache, UserKey(email), <<user>>, <<UserTTL>>, now)
         /\ lastAuth' = AuthCall("registerUser", email, password, <<>>, "ok",
                                 <<WithoutPassword(user)>>, Visible(cache, now))
  /\ registered' = registered + 1
  /\ UNCHANGED <<now, issued, loggedOut, authIdle>>

\* registerUser(email, password)
registerUser(email, password) ==
  LET existingUser == LRUGet(cache, UserKey(email), now) IN
    /\ IF existingUser.value # <<>> /\ Truthy(existingUser.value[1])
         THEN /\ cache' = existingUser.cache
              /\ lastAuth' = AuthCall("registerUser", email, password, <<>>, "User already exists",
                                      <<>>, Visible(cache, now))
              /\ UNCHANGED registered
         ELSE /\ registered < MaxUsers
              /\ \E salt \in Salts :
                   LET user == [kind |-> "user", id |-> registered + 1, email |-> email,
                                passwordHash |-> <<salt, pbkdf2Sync(password, salt)>>,
                                createdAt |-> now] IN
                     /\ cache' = LRUSet(existingUser.cache, UserKey(email), <<user>>,
                                        <<UserTTL>>, now)
                     /\ lastAuth' = AuthCall("registerUser", email, password, <<>>, "ok",
                                             <<WithoutPassword(user)>>, Visible(cache, now))
              /\ registered' = registered + 1
    /\ UNCHANGED <<now, issued, loggedOut, authIdle>>

\* loginUser(email, password)
loginUser(email, password) ==
  LET got == LRUGet(cache, UserKey(email), now)
      failed == AuthCall("loginUser", email, password, <<>>, "Invalid email or password", <<>>,
                         Visible(cache, now)) IN
    /\ IF got.value = <<>> \/ ~Truthy(got.value[1])
         THEN /\ cache' = got.cache
              /\ lastAuth' = failed
              /\ UNCHANGED issued
         ELSE LET user == got.value[1]
                  salt == user.passwordHash[1]
                  storedHash == user.passwordHash[2] IN
           IF pbkdf2Sync(password, salt) # storedHash
             THEN /\ cache' = got.cache
                  /\ lastAuth' = failed
                  /\ UNCHANGED issued
             ELSE /\ Len(issued) < MaxTokens
                  /\ LET sessionToken == Len(issued) + 1 IN
                       /\ cache' = LRUSet(got.cache, SessionKey(sessionToken),
                                          <<[kind |-> "session", userId |-> user.id,
                                             email |-> user.email, createdAt |-> now]>>,
                                          <<SessionTTL>>, now)
                       /\ lastAuth' = AuthCall("loginUser", email, password, <<sessionToken>>, "ok",
                                               <<WithoutPassword(user)>>, Visible(cache, now))
                  /\ issued' = Append(issued, [id |-> user.id, email |-> user.email])
    /\ UNCHANGED <<now, loggedOut, registered, authIdle>>

\* getCurrentUser(request), for a request whose session cookie is cookie,
\* on the cache c at time t: the cache after the call and the user returned.
getCurrentUser(c, cookie, t) ==
  IF cookie = <<>> THEN [cache |-> c, user |-> <<>>]
  ELSE LET session == LRUGet(c, SessionKey(cookie[1]), t) IN
    IF session.value = <<>> \/ ~Truthy(session.value[1])
      THEN [cache |-> session.cache, user |-> <<>>]
      ELSE LET user == LRUGet(session.cache, UserKey(session.value[1].email), t) IN
        IF user.value = <<>> \/ ~Truthy(user.value[1])
          THEN [cache |-> user.cache, user |-> <<>>]
          ELSE [cache |-> user.cache, user |-> <<WithoutPassword(user.value[1])>>]

\* A caller (the history route, logAction) awaits getCurrentUser(request).
GetCurrentUser(cookie) ==
  LET r == getCurrentUser(cache, cookie, now) IN
    /\ cache' = r.cache
    /\ lastAuth' = AuthCall("getCurrentUser", "", "", cookie, "ok", r.user, Visible(cache, now))
    /\ UNCHANGED <<now, issued, loggedOut, registered, authIdle>>

\* logoutUser(request) that only clears the cookie of the response.
logoutUserKeepsSession(cookie) ==
  /\ loggedOut' = loggedOut \cup {cookie[i] : i \in 1 .. Len(cookie)}
  /\ lastAuth' = AuthCall("logoutUser", "", "", cookie, "ok", <<>>, Visible(cache, now))
  /\ UNCHANGED <<cache, now, issued, registered, authIdle>>

\* logoutUser(request)
logoutUser(cookie) ==
  /\ cache' = IF cookie # <<>>
                THEN LRUSet(cache, SessionKey(cookie[1]), <<Null>>, <<0>>, now)
                ELSE cache
  /\ loggedOut' = loggedOut \cup {cookie[i] : i \in 1 .. Len(cookie)}
  /\ lastAuth' = AuthCall("logoutUser", "", "", cookie, "ok", <<>>, Visible(cache, now))
  /\ UNCHANGED <<now, issued, registered, authIdle>>

\* Another user of the cache stores a value: the scrape route caches a
\* result (page.tsx:111), as the process route does (part_006:55).
CacheResult ==
  /\ cache' = LRUSet(cache, cacheKey(UrlExample, <<>>),
                     <<[kind |-> "result", url |-> UrlExample, timestamp |-> now]>>,
                     <<ScrapeTTL \div Minute>>, now)
  /\ lastAuth' = NoAuthCall
  /\ UNCHANGED <<now, issued, loggedOut, registered, authIdle>>

\* Time passes between two calls.
AuthTick(t) ==
  /\ t > now
  /\ now' = t
  /\ lastAuth' = NoAuthCall
  /\ UNCHANGED <<cache, issued, loggedOut, registered, authIdle>>

NextAuth ==
  \/ \E email \in Emails, password \in Passwords : registerUser(email, password)
  \/ \E email \in Emails, password \in Passwords : loginUser(email, password)
  \/ \E cookie \in CookieValues : GetCurrentUser(cookie)
  \/ \E cookie \in CookieValues : logoutUser(cookie)
  \/ CacheResult
  \/ \E t \in AuthClock : AuthTick(t)

SpecAuth == InitAuth /\ [][NextAuth]_vars

\* C16: once logoutUser has handled a request carrying the session token
\* t, getCurrentUser returns null for every request carrying t: in every
\* later state a call with t would return null, and every call made with
\* t has returned null, whatever happened in between.
C16_LoggedOutStaysOut ==
  /\ \A t \in loggedOut : getCurrentUser(cache, <<t>>, now).user = <<>>
  /\ (lastAuth.op = "getCurrentUser" /\ lastAuth.cookie # <<>>
        /\ lastAuth.cookie[1] \in loggedOut)
       => lastAuth.user = <<>>

\* C16 witness: getCurrentUser has just answered a request that carries a
\* token loginUser issued and logoutUser has since handled, while the user
\* the token was issued for is still stored.
C16_Witness ==
  /\ lastAuth.op = "getCurrentUser"
  /\ lastAuth.cookie # <<>>
  /\ lastAuth.cookie[1] \in loggedOut
  /\ lastAuth.cookie[1] \in 1 .. Len(issued)
  /\ \E e \in Visible(cache, now) :
       /\ e.key = UserKey(issued[lastAuth.cookie[1]].email)
       /\ e.val.id = issued[lastAuth.cookie[1]].id
  /\ lastAuth.user = <<>>

\* The user record stored under email in the visible store s matches the
\* password: the login that loginUser accepts.
Matches(s, email, password) ==
  \E e \in s :
    /\ e.key = UserKey(email)
    /\ Truthy(e.val)
    /\ pbkdf2Sync(password, e.val.passwordHash[1]) = e.val.passwordHash[2]

\* Every session held by the cache was stored by a successful loginUser:
\* its token was issued, for the user the session names.
SessionsAreIssued ==
  \A i \in 1 .. Len(cache) :
    (cache[i].key[1] = SESSIONS_CACHE_PREFIX /\ Truthy(cache[i].val)) =>
      /\ cache[i].key[2] \in 1 .. Len(issued)
      /\ cache[i].val.userId = issued[cache[i].key[2]].id
      /\ cache[i].val.email = issued[cache[i].key[2]].email

\* loginUser succeeds only for a registered email with the matching
\* password; otherwise it throws 'Invalid email or password' and what the
\* store returns is unchanged.
FailedLoginChangesNothing ==
  lastAuth.op = "loginUser" =>
    IF Matches(lastAuth.before, lastAuth.email, lastAuth.password)
      THEN lastAuth.outcome \in {"ok"}
      ELSE /\ lastAuth.outcome = "Invalid email or password"
           /\ Visible(cache, now) = lastAuth.before

\* getCurrentUser returns a user only for an issued token, and then the
\* user the token was issued for.
CurrentUserIsTokenOwner ==
  (lastAuth.op = "getCurrentUser" /\ lastAuth.user # <<>>) =>
    /\ lastAuth.cookie # <<>>
    /\ lastAuth.cookie[1] \in 1 .. Len(issued)
    /\ lastAuth.user[1].id = issued[lastAuth.cookie[1]].id

\* C17: a session is in the store only as the result of a loginUser call
\* with a registered email and the matching password; a loginUser call with
\* an unknown email or a wrong password throws 'Invalid email or password'
\* and leaves the store unchanged; getCurrentUser returns a user only for
\* a token that a successful loginUser issued for that user.
C17_SessionsOnlyFromLogin ==
  /\ SessionsAreIssued
  /\ FailedLoginChangesNothing
  /\ CurrentUserIsTokenOwner

\* The user records the store s returns for email.
StoredUsers(s, email) == {e \in s : e.key = UserKey(email) /\ Truthy(e.val)}

\* C18: registerUser for an email that has a stored user throws 'User
\* already exists' and leaves that user's record (id, password hash,
\* creation time) as it was; it succeeds only for an email without a stored
\* user, so it never overwrites one; and the store holds at most one user
\* record per email, filed under the email it carries.
C18_NoDuplicateRegistration ==
  /\ lastAuth.op = "registerUser" =>
       IF StoredUsers(lastAuth.before, lastAuth.email) # {}
         THEN /\ lastAuth.outcome = "User already exists"
              /\ StoredUsers(Visible(cache, now), lastAuth.email)
                   = StoredUsers(lastAuth.before, lastAuth.email)
         ELSE lastAuth.outcome = "ok"
  /\ \A i, j \in 1 .. Len(cache) : cache[i].key = cache[j].key => i = j
  /\ \A i \in 1 .. Len(cache) :
       cache[i].key[1] = USERS_CACHE_PREFIX =>
         /\ cache[i].val.kind = "user"
         /\ cache[i].val.email = cache[i].key[2]

\* C18 witness: registerUser has just refused an email whose stored user
\* was registered with another password, and that user is still stored.
C18_Witness ==
  /\ lastAuth.op = "registerUser"
  /\ lastAuth.outcome = "User already exists"
  /\ \E e \in StoredUsers(Visible(cache, now), lastAuth.email) :
       e.val.passwordHash[2] # pbkdf2Sync(lastAuth.password, e.val.passwordHash[1])

\* ------------------------------------------------------------------------
\* Scraping history (src/lib/storage/historyStorage.ts) and the DELETE
\* handler of /api/history (src/app/api/history/route.ts).  Tasks and the
\* list of their ids are entries of the result cache.  The functions of
\* historyStorage.ts and getCurrentUser are async but await nothing, so the
\* DELETE handler runs from its first line to its response without another
\* handler running in between.  The cache has the capacity of the program,
\* which the bounded runs never fill.
\* ------------------------------------------------------------------------

historyIdle == <<lastGet, lastSet, recency, dropped, overwritten, lruBefore,
                 fetchVars, reqs, arrivals, staticVars, ldVars, textVars, rateVars,
                 retryVars, authVars, auditVars>>

\* new LRUCache({ max: 100, ... })
max == 100

HISTORY_CACHE_PREFIX == "history:"
HistoryKey(id) == <<HISTORY_CACHE_PREFIX, id>>
\* 'history:list', which is `${HISTORY_CACHE_PREFIX}${id}` for id = 'list'
HISTORY_LIST_KEY == HistoryKey("list")

\* TTL of a task and of the list (historyStorage.ts:35, 40, 86).
TaskTTL == 30 * Day

\* getAllScrapingTasks(userId?, limit = 100)
DefaultLimit == 100

\* rateLimit(request, 10, 60 * 1000) of the DELETE handler.
HistoryLimit == 10
HistoryWindow == (60 * 1000) \div Minute

\* Date.now().toString(36) + Math.random().toString(36).substring(2): the
\* n-th id generated is GeneratedIds[n], different from the ids before it.
GeneratedIds == <<"t1", "t2", "t3", "t4">>

\* The id parameter of a request or call: absent, the id of a task that has
\* been or may be saved, or the word 'list'.
IdArgs == {<<>>} \cup {<<GeneratedIds[n]>> : n \in 1 .. MaxTasks} \cup {<<"list">>}

\* The two accounts of the history specification, registered and logged in
\* before it starts; the session token of member m is m.id.
Members == {[id |-> 1, email |-> "a@x"], [id |-> 2, email |-> "b@x"]}

Member(n) == CHOOSE m \in Members : m.id = n

MemberUser(n) ==
  [kind |-> "user", id |-> n, email |-> Member(n).email,
   passwordHash |-> <<"s1", pbkdf2Sync("pw1", "s1")>>, createdAt |-> 1]

MemberSession(n) ==
  [kind |-> "session", userId |-> n, email |-> Member(n).email, createdAt |-> 1]

\* The cache after registerUser and loginUser for each member.
MembersCache ==
  <<NewEntry(UserKey(Member(1).email), MemberUser(1), <<UserTTL>>, 1),
    NewEntry(SessionKey(1), MemberSession(1), <<SessionTTL>>, 1),
    NewEntry(UserKey(Member(2).email), MemberUser(2), <<UserTTL>>, 1),
    NewEntry(SessionKey(2), MemberSession(2), <<SessionTTL>>, 1)>>

\* The session cookie of a request: absent, or the token of a member.
MemberCookies == {<<>>} \cup {<<m.id>> : m \in Members}

\* task.userId of a saved task: user?.id of the request that saved it.
UserIdArgs == {<<>>} \cup {<<m.id>> : m \in Members}

\* The counters of the requesting address when the run starts: none, or
\* the ones left by ten requests it has just made.
HistoryInitialCounts ==
  {<<>>} \cup {(ip :> [count |-> HistoryLimit, resetTime |-> 1 + HistoryWindow]) : ip \in Ips}

\* The instants at which the history is observed: the start, and a moment
\* after the rate-limit window of the start has ended.
HistoryClock == {1, 2 + HistoryWindow}

HistoryCall(op, cookie, id, status, before) ==
  [op |-> op, cookie |-> cookie, id |-> id, status |-> status, before |-> before]

InitHistory ==
  /\ NoFetch
  /\ NoAudit
  /\ NoStatic
  /\ NoJsonLd
  /\ NoText
  /\ NoRateLog
  /\ NoRetry
  /\ reqs = [r \in Reqs |-> IdleReq]
  /\ arrivals = 0
  /\ ipRequestCounts \in HistoryInitialCounts
  /\ cache = MembersCache
  /\ now = 1
  /\ lastGet = NoGet
  /\ lastSet = [k \in CacheKeys |-> Undefined]
  /\ recency = <<>>
  /\ dropped = {}
  /\ overwritten = {}
  /\ lruBefore = <<>>
  /\ issued = <<Member(1), Member(2)>>
  /\ loggedOut = {}
  /\ registered = 2
  /\ lastAuth = NoAuthCall
  /\ tasksSaved = 0
  /\ deletes = 0
  /\ gets = 0
  /\ lastHistory = NoHistoryCall

\* getCacheItem(key) || fallback, on the cache c at time t
GetOr(c, k, t, fallback) ==
  LET got == LRUGet(c, k, t) IN
    [cache |-> got.cache,
     value |-> IF got.value # <<>> /\ Truthy(got.value[1]) THEN got.value[1] ELSE fallback]

EmptyList == [kind |-> "array", ids |-> <<>>]

\* saveScrapingTask(task) on the cache c at time t, generating the id id
SaveTask(c, userId, id, t) ==
  LET taskWithId == [kind |-> "task", id |-> id, userId |-> userId, url |-> UrlExample,
                     timestamp |-> t]
      c1 == LRUSetMax(c, HistoryKey(id), <<taskWithId>>, <<TaskTTL>>, t, max)
      taskList == GetOr(c1, HISTORY_LIST_KEY, t, EmptyList)
      unshifted == [taskList.value EXCEPT !.ids = <<id>> \o @]
  IN LRUSetMax(taskList.cache, HISTORY_LIST_KEY, <<unshifted>>, <<TaskTTL>>, t, max)

\* getScrapingTask(id): the cache after the call and the value returned,
\* <<>> for null.
getScrapingTask(c, id, t) ==
  LET got == LRUGet(c, HistoryKey(id), t) IN
    [cache |-> got.cache,
     task |-> IF got.value # <<>> /\ Truthy(got.value[1]) THEN got.value ELSE <<>>]

\* The loop of getAllScrapingTasks over the ids of the list.
RECURSIVE CollectTasks(_, _, _, _, _)
CollectTasks(c, ids, userId, t, tasks) ==
  IF ids = <<>> THEN [cache |-> c, tasks |-> tasks]
  ELSE LET got == LRUGet(c, HistoryKey(Head(ids)), t)
           keep == /\ got.value # <<>>
                   /\ Truthy(got.value[1])
                   /\ (userId = <<>> \/ (got.value[1].kind = "task"
                                           /\ got.value[1].userId = userId))
       IN CollectTasks(got.cache, Tail(ids), userId, t,
                       IF keep THEN Append(tasks, got.value[1]) ELSE tasks)

\* getAllScrapingTasks(userId, limit)
getAllScrapingTasks(c, userId, limit, t) ==
  LET taskList == GetOr(c, HISTORY_LIST_KEY, t, EmptyList)
      ids == taskList.value.ids
  IN CollectTasks(taskList.cache, SubSeq(ids, 1, IF Len(ids) < limit THEN Len(ids) ELSE limit),
                  userId, t, <<>>)

\* deleteScrapingTask(id) on the cache c at time t
DeleteTask(c, id, t) ==
  LET c1 == LRUSetMax(c, HistoryKey(id), <<Null>>, <<0>>, t, max)
      taskList == GetOr(c1, HISTORY_LIST_KEY, t, EmptyList)
      newTaskList == [taskList.value EXCEPT !.ids = SelectSeq(@, LAMBDA taskId : taskId # id)]
  IN LRUSetMax(taskList.cache, HISTORY_LIST_KEY, <<newTaskList>>, <<TaskTTL>>, t, max)

\* A request handler awaits saveScrapingTask({ userId: user?.id, ... }).
saveScrapingTask(userId) ==
  /\ tasksSaved < MaxTasks
  /\ tasksSaved' = tasksSaved + 1
  /\ cache' = SaveTask(cache, userId, GeneratedIds[tasksSaved + 1], now)
  /\ lastHistory' = HistoryCall("saveScrapingTask", <<>>, <<GeneratedIds[tasksSaved + 1]>>,
                                0, cache)
  /\ UNCHANGED <<now, ipRequestCounts, deletes, gets, historyIdle>>

\* deleteScrapingTask(id) is called.
deleteScrapingTask(id) ==
  /\ deletes < MaxDeletes
  /\ deletes' = deletes + 1
  /\ cache' = DeleteTask(cache, id, now)
  /\ lastHistory' = HistoryCall("deleteScrapingTask", <<>>, <<id>>, 0, cache)
  /\ UNCHANGED <<now, ipRequestCounts, tasksSaved, gets, historyIdle>>

\* task.userId of the value getScrapingTask returned
TaskUserId(task) == IF task.kind = "task" THEN task.userId ELSE <<>>

\* DELETE /api/history?id=...
DELETE(ip, cookie, id) ==
  LET limited == rateLimit(ipRequestCounts, ip, HistoryLimit, HistoryWindow, now)
      current == getCurrentUser(cache, cookie, now)
      found == getScrapingTask(current.cache, id[1], now)
      respond(status, c) ==
        /\ cache' = c
        /\ lastHistory' = HistoryCall("DELETE", cookie, id, status, cache)
  IN
    /\ deletes < MaxDeletes
    /\ deletes' = deletes + 1
    /\ ipRequestCounts' = limited.counts
    /\ IF limited.limited THEN respond(429, cache)
       ELSE IF current.user = <<>> THEN respond(401, current.cache)
       ELSE IF id = <<>> THEN respond(400, current.cache)
       ELSE IF found.task = <<>> THEN respond(404, found.cache)
       ELSE IF TaskUserId(found.task[1]) # <<>>
                 /\ TaskUserId(found.task[1])[1] # current.user[1].id
         THEN respond(403, found.cache)
       ELSE respond(200, DeleteTask(found.cache, id[1], now))
    /\ UNCHANGED <<now, tasksSaved, gets, historyIdle>>

\* rateLimit(request, 20, 60 * 1000) of the GET handler.
HistoryGetLimit == 20

\* The limit parameter of a GET request, after parseInt: absent, or a number.
LimitArgs == {<<>>} \cup {<<n>> : n \in 0 .. MaxTasks}

\* The response of the GET handler: data is the sequence of the tasks in
\* its body, the one task of a request with id included.
HistoryRead(cookie, id, limit, status, data, before) ==
  [op |-> "GET", cookie |-> cookie, id |-> id, limit |-> limit, status |-> status,
   data |-> data, before |-> before]

\* GET /api/history?id=...&limit=...
GET(ip, cookie, id, limitParam) ==
  LET limited == rateLimit(ipRequestCounts, ip, HistoryGetLimit, HistoryWindow, now)
      current == getCurrentUser(cache, cookie, now)
      limit == IF limitParam = <<>> THEN DefaultLimit ELSE limitParam[1]
      found == getScrapingTask(current.cache, id[1], now)
      all == getAllScrapingTasks(current.cache,
                                 IF current.user = <<>> THEN <<>> ELSE <<current.user[1].id>>,
                                 limit, now)
      respond(status, data, c) ==
        /\ cache' = c
        /\ lastHistory' = HistoryRead(cookie, id, limit, status, data, cache)
  IN
    /\ gets < MaxGets
    /\ gets' = gets + 1
    /\ ipRequestCounts' = limited.counts
    /\ IF limited.limited THEN respond(429, <<>>, cache)
       ELSE IF id # <<>>
         THEN IF found.task = <<>> THEN respond(404, <<>>, found.cache)
              ELSE IF /\ current.user # <<>>
                      /\ TaskUserId(found.task[1]) # <<>>
                      /\ TaskUserId(found.task[1])[1] # current.user[1].id
                THEN respond(403, <<>>, found.cache)
              ELSE respond(200, found.task, found.cache)
       ELSE respond(200, all.tasks, all.cache)
    /\ UNCHANGED <<now, tasksSaved, deletes, historyIdle>>

\* Time passes between two calls.
HistoryTick(t) ==
  /\ t > now
  /\ now' = t
  /\ lastHistory' = NoHistoryCall
  /\ UNCHANGED <<cache, ipRequestCounts, tasksSaved, deletes, gets, historyIdle>>

NextHistory ==
  \/ \E userId \in UserIdArgs : saveScrapingTask(userId)
  \/ \E id \in IdArgs \ {<<>>} : deleteScrapingTask(id[1])
  \/ \E ip \in Ips, cookie \in MemberCookies, id \in IdArgs : DELETE(ip, cookie, id)
  \/ \E ip \in Ips, cookie \in MemberCookies, id \in IdArgs, limitParam \in LimitArgs :
       GET(ip, cookie, id, limitParam)
  \/ \E t \in HistoryClock : HistoryTick(t)

SpecHistory == InitHistory /\ [][NextHistory]_vars

\* What the history functions can return from the cache c at time t: the
\* unexpired entries under the history prefix.
HistoryStore(c, t) == {e \in Visible(c, t) : e.key[1] = HISTORY_CACHE_PREFIX}

\* The saved task with the given id in the cache c, <<>> when there is none.
SavedTask(c, id, t) ==
  LET found == {e \in HistoryStore(c, t) : e.key = HistoryKey(id) /\ e.val.kind = "task"}
  IN IF found = {} THEN <<>> ELSE <<(CHOOSE e \in found : TRUE).val>>

\* C19: DELETE /api/history answers 401 to an unauthenticated request, 400
\* to a request without id, 404 to the id of no task, 403 to the id of a
\* task with the userId of another user, and leaves the history store
\* unchanged in each of these cases; it removes a task only for an
\* authenticated requester and a task without userId or with the
\* requester's userId.
C19_DeleteOnlyOwnTasks ==
  (lastHistory.op = "DELETE" /\ lastHistory.status # 429) =>
    LET before == lastHistory.before
        user == getCurrentUser(before, lastHistory.cookie, now).user
        task == SavedTask(before, lastHistory.id[1], now)
        unchanged == HistoryStore(cache, now) = HistoryStore(before, now)
    IN IF user = <<>> THEN lastHistory.status = 401 /\ unchanged
       ELSE IF lastHistory.id = <<>> THEN lastHistory.status = 400 /\ unchanged
       ELSE IF task = <<>> THEN lastHistory.status = 404 /\ unchanged
       ELSE IF task[1].userId # <<>> /\ task[1].userId[1] # user[1].id
         THEN lastHistory.status = 403 /\ unchanged
       ELSE /\ lastHistory.status = 200
            /\ SavedTask(cache, lastHistory.id[1], now) = <<>>

\* The cases of C19 other than the id 'list'.
C19_ExceptList ==
  (lastHistory.op = "DELETE" /\ lastHistory.id # <<"list">>) => C19_DeleteOnlyOwnTasks

\* The last step ran deleteScrapingTask(id), called directly or by the
\* DELETE handler.
JustDeleted ==
  \/ lastHistory.op = "deleteScrapingTask"
  \/ lastHistory.op = "DELETE" /\ lastHistory.status = 200

\* C20: after deleteScrapingTask(id), getScrapingTask(id) returns null and
\* getAllScrapingTasks does not include the task, while every other saved
\* task is still returned by getScrapingTask and the other tasks come in
\* the history list in the order they had before.
C20_DeleteRemovesOnlyThatTask ==
  JustDeleted =>
    LET id == lastHistory.id[1]
        before == lastHistory.before
        allBefore == getAllScrapingTasks(before, <<>>, DefaultLimit, now).tasks
        allAfter == getAllScrapingTasks(cache, <<>>, DefaultLimit, now).tasks
    IN /\ getScrapingTask(cache, id, now).task = <<>>
       /\ \A i \in 1 .. Len(allAfter) : allAfter[i].id # id
       /\ \A n \in 1 .. tasksSaved :
            (GeneratedIds[n] # id /\ SavedTask(before, GeneratedIds[n], now) # <<>>) =>
              getScrapingTask(cache, GeneratedIds[n], now).task
                = SavedTask(before, GeneratedIds[n], now)
       /\ allAfter = SelectSeq(allBefore, LAMBDA task : task.id # id)

\* The cases of C20 other than the id 'list'.
C20_ExceptList ==
  (JustDeleted /\ lastHistory.id # <<"list">>) => C20_DeleteRemovesOnlyThatTask

\* C21: the statement after the loop, which throws 'Unexpected error in
\* retry mechanism', is never reached: for every value of the options the
\* function ends inside the loop, by returning a result or by the 'Failed
\* after ...' throw.
C21_TrailingThrowUnreachable == retry.outcome # "unexpected"

\* C21 for the options whose maxRetries is a count of retries.
C21_ForCounts == retry.maxRetries >= 0 => C21_TrailingThrowUnreachable

\* The ids of the history list of the cache c, newest first.
ListedIds(c, t) ==
  LET found == {e \in HistoryStore(c, t) : e.key = HISTORY_LIST_KEY /\ e.val.kind = "array"}
  IN IF found = {} THEN <<>> ELSE (CHOOSE e \in found : TRUE).val.ids

\* The tasks of the user userId that are in the history of the cache c,
\* newest first.
RECURSIVE OwnTasks(_, _, _, _)
OwnTasks(c, ids, userId, t) ==
  IF ids = <<>> THEN <<>>
  ELSE LET task == SavedTask(c, Head(ids), t)
       IN (IF task # <<>> /\ task[1].userId = <<userId>> THEN task ELSE <<>>)
            \o OwnTasks(c, Tail(ids), userId, t)

\* The first n elements of the sequence s, all of them when it has fewer.
Take(s, n) == SubSeq(s, 1, Min(n, Len(s)))

\* C22: for an authenticated requester, getAllScrapingTasks(userId, limit)
\* returns, newest first, the min(limit, n) most recently saved of the n
\* tasks of that user in the history, whatever tasks other users have
\* saved in between.
C22_OwnTasksUpToLimit ==
  (lastHistory.op = "GET" /\ lastHistory.status = 200 /\ lastHistory.id = <<>>) =>
    LET before == lastHistory.before
        user == getCurrentUser(before, lastHistory.cookie, now).user
    IN user # <<>> =>
         lastHistory.data
           = Take(OwnTasks(before, ListedIds(before, now), user[1].id, now), lastHistory.limit)

\* C22 for the requests whose limit is not below the length of the list.
C22_WithinLimit ==
  (lastHistory.op = "GET" /\ lastHistory.limit >= Len(ListedIds(lastHistory.before, now)))
    => C22_OwnTasksUpToLimit

\* The saved tasks in the values v1, v2, ... of the sequence data.
TasksIn(data) == {data[i] : i \in {j \in 1 .. Len(data) : data[j].kind = "task"}}

\* C24: GET /api/history discloses a task saved with a userId, by id or in
\* the task list, only to a requester authenticated as that user; a
\* requester without a session or with an invalid one gets none.
C24_OwnerOnlyDisclosure ==
  lastHistory.op = "GET" =>
    LET user == getCurrentUser(lastHistory.before, lastHistory.cookie, now).user
    IN \A task \in TasksIn(lastHistory.data) :
         task.userId # <<>> => (user # <<>> /\ task.userId = <<user[1].id>>)

\* C24 for the requesters that are authenticated.
C24_Authenticated ==
  (lastHistory.op = "GET"
     /\ getCurrentUser(lastHistory.before, lastHistory.cookie, now).user # <<>>)
    => C24_OwnerOnlyDisclosure

\* ------------------------------------------------------------------------
\* Audit log (src/lib/security/audit.ts): logAction appends an entry to the
\* array auditLogs, getAuditLogs reads it.  An entry is [n, userId]: n is
\* its place in the order of logging, which stands for its timestamp,
\* action and details.
\* ------------------------------------------------------------------------

auditIdle == <<lastGet, lastSet, recency, dropped, overwritten, lruBefore, now,
               fetchVars, scrapeVars, staticVars, ldVars, textVars, rateVars, retryVars,
               authVars, historyVars>>

\* getAuditLogs(userId?, limit = 100)
AuditDefaultLimit == 100

\* The limit argument of getAuditLogs: not given, or a number from 0.
AuditLimits == {<<>>} \cup {<<n>> : n \in 0 .. MaxLogs}

InitAudit ==
  /\ NoFetch
  /\ NoScrape
  /\ NoStatic
  /\ NoJsonLd
  /\ NoText
  /\ NoRateLog
  /\ NoRetry
  /\ NoHistory
  /\ cache = MembersCache
  /\ now = 1
  /\ lastGet = NoGet
  /\ lastSet = [k \in CacheKeys |-> Undefined]
  /\ recency = <<>>
  /\ dropped = {}
  /\ overwritten = {}
  /\ lruBefore = <<>>
  /\ issued = <<Member(1), Member(2)>>
  /\ loggedOut = {}
  /\ registered = 2
  /\ lastAuth = NoAuthCall
  /\ NoAudit

\* logAction(request, action, details): getCurrentUser cannot throw, so the
\* entry is built from its result and pushed.
logAction(cookie) ==
  LET current == getCurrentUser(cache, cookie, now)
      entry == [n |-> Len(auditLogs) + 1,
                userId |-> IF current.user = <<>> THEN <<>> ELSE <<current.user[1].id>>]
  IN /\ Len(auditLogs) < MaxLogs
     /\ cache' = current.cache
     /\ auditLogs' = Append(auditLogs, entry)
     /\ lastAudit' = NoAuditCall
     /\ UNCHANGED auditIdle

\* Array.prototype.slice(start): a negative start counts from the end, and
\* -0 is 0.
Slice(s, start) ==
  LET from == IF start < 0 THEN (IF Len(s) + start > 0 THEN Len(s) + start ELSE 0)
              ELSE Min(start, Len(s))
  IN SubSeq(s, from + 1, Len(s))

\* Array.prototype.reverse()
Reverse(s) == [i \in 1 .. Len(s) |-> s[Len(s) + 1 - i]]

\* auditLogs.filter(log => log.userId === userId) when userId is given
FilterLogs(logs, userId) ==
  IF userId = <<>> THEN logs ELSE SelectSeq(logs, LAMBDA log : log.userId = userId)

\* filteredLogs.slice(-limit).reverse()
LatestLogs(logs, userId, limit) == Reverse(Slice(FilterLogs(logs, userId), 0 - limit))

\* getAuditLogs(userId, limit)
getAuditLogs(userId, limitArg) ==
  LET limit == IF limitArg = <<>> THEN AuditDefaultLimit ELSE limitArg[1]
  IN /\ lastAudit' = [op |-> "getAuditLogs", userId |-> userId, limit |-> limit,
                      result |-> LatestLogs(auditLogs, userId, limit)]
     /\ UNCHANGED <<cache, auditLogs, auditIdle>>

NextAudit ==
  \/ \E cookie \in MemberCookies : logAction(cookie)
  \/ \E userId \in UserIdArgs, limitArg \in AuditLimits : getAuditLogs(userId, limitArg)

SpecAudit == InitAudit /\ [][NextAudit]_vars

\* C23: for every limit >= 0, getAuditLogs(userId, limit) returns at most
\* limit entries; they are the latest entries of the log that match userId
\* (all entries when none is given), newest first.
C23_LatestUpToLimit ==
  lastAudit.op = "getAuditLogs" =>
    LET matching == FilterLogs(auditLogs, lastAudit.userId)
        count == Min(lastAudit.limit, Len(matching))
    IN /\ Len(lastAudit.result) <= lastAudit.limit
       /\ lastAudit.result
            = [i \in 1 .. count |-> matching[Len(matching) + 1 - i]]
       /\ \A i \in 1 .. Len(lastAudit.result) :
            lastAudit.userId # <<>> => lastAudit.result[i].userId = lastAudit.userId

\* C23 for the limits from 1.
C23_PositiveLimit ==
  (lastAudit.op = "getAuditLogs" /\ lastAudit.limit >= 1) => C23_LatestUpToLimit

\* ------------------------------------------------------------------------
\* The rate limiter as the route handlers call it: every handler passes
\* its own limit and window to rateLimit, and all of them share the map
\* ipRequestCounts of the module.
\* ------------------------------------------------------------------------

\* POST /api/process: rateLimit(request, 5, 60 * 1000)
ProcessLimit == 5

\* The handlers that call rateLimit.
Routes == {"POST /api/scrape", "POST /api/process", "GET /api/history",
           "POST /api/history", "DELETE /api/history"}

\* The limit a handler passes.
RouteLimit(route) ==
  CASE route = "POST /api/scrape" -> ScrapeLimit
    [] route = "POST /api/process" -> ProcessLimit
    [] route = "GET /api/history" -> HistoryGetLimit
    [] route = "POST /api/history" -> HistoryLimit
    [] route = "DELETE /api/history" -> HistoryLimit

\* The window a handler passes: 60 * 1000 in all of them.
RouteWindow(route) == ScrapeWindow

\* Instants at which requests arrive: the start, and the first instant
\* after the reset time of a window opened at the start has passed.
RouteClock == {1, 2 + ScrapeWindow}

NoRouteWindow == [opened |-> 0, reset |-> 0, total |-> 0]

NoRouteCall == [ip |-> "", route |-> "", limited |-> FALSE, before |-> 0, shared |-> 0]

InitRoutes ==
  /\ NoFetch
  /\ NoAuth
  /\ NoHistory
  /\ NoAudit
  /\ NoStatic
  /\ NoJsonLd
  /\ NoText
  /\ NoRetry
  /\ IdleCache
  /\ reqs = [r \in Reqs |-> IdleReq]
  /\ arrivals = 0
  /\ ipRequestCounts = <<>>
  /\ rateWindow = [k \in RateIps \X Routes |-> NoRouteWindow]
  /\ lastRate = NoRouteCall
  /\ rateCalls = 0

\* The rateLimit call at the head of a handler, for a request of address
\* ip.  Beside the map, the requests of the address to this route are
\* counted in a window of the route's own: it is opened by the first
\* request to the route and by every request to it that arrives after the
\* reset time of the window before has passed.  shared is the count the
\* map holds for the address when the request arrives.
RouteRequest(ip, route) ==
  /\ rateCalls < MaxRouteCalls
  /\ rateCalls' = rateCalls + 1
  /\ LET rl == rateLimit(ipRequestCounts, ip, RouteLimit(route), RouteWindow(route), now)
         w == rateWindow[<<ip, route>>]
         opens == w.opened = 0 \/ w.reset < now
         cur == IF opens
                THEN [NoRouteWindow EXCEPT !.opened = now, !.reset = now + RouteWindow(route)]
                ELSE w
         shared == IF ip \in DOMAIN ipRequestCounts /\ ~(ipRequestCounts[ip].resetTime < now)
                   THEN ipRequestCounts[ip].count ELSE 0 IN
       /\ ipRequestCounts' = rl.counts
       /\ rateWindow' = [rateWindow EXCEPT ![<<ip, route>>] = [cur EXCEPT !.total = @ + 1]]
       /\ lastRate' = [ip |-> ip, route |-> route, limited |-> rl.limited,
                       before |-> cur.total, shared |-> shared]
  /\ UNCHANGED <<now, rateIdle>>

\* Time passes between two requests.
RouteTick(t) ==
  /\ t > now
  /\ now' = t
  /\ lastRate' = NoRouteCall
  /\ UNCHANGED <<ipRequestCounts, rateWindow, rateCalls, rateIdle>>

NextRoutes ==
  \/ \E ip \in RateIps, route \in Routes : RouteRequest(ip, route)
  \/ \E t \in RouteClock : RouteTick(t)

SpecRoutes == InitRoutes /\ [][NextRoutes]_vars

\* C25: a request to a route is answered 429 exactly when the requests the
\* same address has made before to the same route in the current window
\* have reached the limit of that route; requests to other routes play no
\* part.
C25_PerRouteLimit ==
  lastRate.route # "" =>
    (lastRate.limited <=> lastRate.before >= RouteLimit(lastRate.route))

\* What holds in place of C25: a request is answered 429 exactly when the
\* requests the same address has made before to any route, in the window
\* opened by the first of them, have reached the limit of the route asked.
C25_SharedCounter ==
  lastRate.route # "" =>
    (lastRate.limited <=> lastRate.shared >= RouteLimit(lastRate.route))

\* ------------------------------------------------------------------------
\* POST /api/scrape for requests whose url or wait selector contains the
\* separator ':' of the cache key.
\* ------------------------------------------------------------------------

\* A page, and the page whose path continues with ":li".
UrlPage == <<"http:", "//", "example", ".", "com", "/", "p">>
UrlPageColon == UrlPage \o <<":", "li">>

\* The selectors "li:first-child" and "first-child".
SelectorPseudo == <<"li", ":", "first-child">>
SelectorTag == <<"first-child">>

\* Bodies { url, waitFor } over these.
KeyBodies ==
  [valid : {TRUE}, url : {<<UrlPage>>, <<UrlPageColon>>},
   waitFor : {<<SelectorPseudo>>, <<SelectorTag>>}]

NextKeys ==
  \/ \E r \in Reqs, ip \in Ips, body \in KeyBodies : PostArrive(r, ip, body)
  \/ \E r \in Reqs : PostLookup(r)
  \/ \E r \in Reqs : PostFetchDone(r)
  \/ \E t \in ScrapeClock : ScrapeTick(t)

SpecKeys == InitScrape /\ [][NextKeys]_vars

\* C26: the cache key is injective on (url, waitFor): two requests that
\* look up the same key carry the same url and the same wait selector, and
\* a response served from the cache carries a result that was built for
\* the url and the wait selector of the request it answers.
C26_KeyInjective ==
  /\ \A r, q \in Reqs :
       (reqs[r].looked # <<>> /\ reqs[q].looked # <<>>
        /\ cacheKey(reqs[r].body.url[1], reqs[r].body.waitFor)
             = cacheKey(reqs[q].body.url[1], reqs[q].body.waitFor))
         => (reqs[r].body.url = reqs[q].body.url /\ reqs[r].body.waitFor = reqs[q].body.waitFor)
  /\ \A r \in Reqs :
       (reqs[r].pc = "done" /\ reqs[r].resp.cached) =>
         /\ reqs[r].resp.data[1].url = reqs[r].body.url[1]
         /\ reqs[r].resp.data[1].waitFor = reqs[r].body.waitFor

\* What holds in place of C26: a response served from the cache carries a
\* result that was stored under the key of the request it answers.
C26_SameKey ==
  \A r \in Reqs :
    (reqs[r].pc = "done" /\ reqs[r].resp.cached) =>
      cacheKey(reqs[r].resp.data[1].url, reqs[r].resp.data[1].waitFor)
        = cacheKey(reqs[r].body.url[1], reqs[r].body.waitFor)

====
